---- MODULE Spec2Model ----
(***************************************************************************)
(* Model of the MentOS buddy-system page allocator (buddy_system.c) with   *)
(* its watermark page cache, and of the scheduler policy dispatcher        *)
(* (scheduler_algorithm.c).                                                *)
(***************************************************************************)
EXTENDS Integers, Sequences, FiniteSets, TLC

VARIABLES
    pages,                  \* descriptor table: index -> [free, root, order]
    free_area,              \* order -> [free_list, nr_free]
    free_pages_cache_list,  \* instance->free_pages_cache_list (head first)
    free_pages_cache_size,  \* instance->free_pages_cache_size
    total_pages,            \* instance->total_pages
    held,                   \* blocks callers got from bb_alloc_pages: [idx, order]
    cheld,                  \* pages callers got from bb_alloc_page_cached
    ret,                    \* the last call and what it returned
    crashed,                \* the kernel stopped: NULL dereferenced, or no zone
    irq_enabled,            \* the interrupt flag of the CPU
    inflight,               \* the bb_alloc_pages call process context is in:
                            \* its position and its local variables
    queue,                  \* runqueue.queue: the tasks in list order
    curr,                   \* runqueue.curr
    tasks,                  \* task -> its state and its scheduling entity (se)
    policy,                 \* the scheduling algorithm the kernel is built with
    ticks,                  \* timer_get_ticks()
    next,                   \* what the last scheduler_pick_next_task returned
    sop,                    \* the last operation on the runqueue
    panicked,               \* the assertion on the selected task failed
    picked                  \* the tasks returned by the latest calls of
                            \* scheduler_pick_next_task, each switched to,
                            \* since the runqueue or a task state last changed

ivars == <<irq_enabled, inflight>>

bvars == <<pages, free_area, free_pages_cache_list, free_pages_cache_size,
           total_pages, held, cheld, ret, crashed, irq_enabled, inflight>>

svars == <<queue, curr, tasks, policy, ticks, next, sop, panicked, picked>>

vars == <<pages, free_area, free_pages_cache_list, free_pages_cache_size,
          total_pages, held, cheld, ret, crashed, irq_enabled, inflight,
          queue, curr, tasks, policy, ticks, next, sop, panicked, picked>>

-----------------------------------------------------------------------------
(* Bounds of the model.                                                    *)

\* Max-order blocks of the zone in the buddy-only specification.
NBlocks == 2
\* Max-order blocks of the zone in the specification with invalid frees.
MisuseBlocks == 1
\* Max-order blocks of the zone in the cache specification.
CacheBlocks == 11
\* Blocks callers hold at the same time.
MaxHeld == 2
\* Blocks callers hold at the same time in the cache specification.
MaxHeldCache == 1
\* Pages callers hold from the cache at the same time.
MaxCacheHeld == 1
\* Pages callers hold from the cache at the same time when they drain it.
MaxDrained == 41
\* Tasks that can be queued.
NTasks == 3
\* Tasks of the runqueue in the specification of the six builds.
PolicyTasks == 2
\* Timer ticks that elapse in the specification of the six builds.
MaxTicks == 1

\* The tick at which a runqueue of the periodic builds is taken up.
StartTicks == 2
\* Time slices that elapse in the specification of the fair build.
MaxSlices == 4
\* Page descriptors of the largest region handed to buddy_system_init.
MaxInitPages == 9

(* Program constants.                                                      *)

\* The number of orders is a build-time setting (14 by default); the model
\* is the build with three orders, whose largest block has four pages.
MAX_BUDDYSYSTEM_GFP_ORDER == 3
LOW_WATERMARK_LEVEL == 10
HIGH_WATERMARK_LEVEL == 70
MID_WATERMARK_LEVEL == (LOW_WATERMARK_LEVEL + HIGH_WATERMARK_LEVEL) \div 2

\* The NULL descriptor pointer.
NONE == -1
\* What list_entry() makes of the NULL that popping an empty list gives.
BadPage == -2
\* The order field of a descriptor buddy_system_init never wrote.
Uninit == -1

Orders == 0 .. (MAX_BUDDYSYSTEM_GFP_ORDER - 1)

-----------------------------------------------------------------------------
(* Bit arithmetic on page indices.                                         *)

RECURSIVE Pow2(_)
Pow2(n) == IF n = 0 THEN 1 ELSE 2 * Pow2(n - 1)

RECURSIVE BitXor(_, _)
BitXor(a, b) ==
    IF a = 0 /\ b = 0 THEN 0
    ELSE (IF (a % 2) # (b % 2) THEN 1 ELSE 0) + 2 * BitXor(a \div 2, b \div 2)

\* BitAnd with the bits joined instead (page_idx |= buddy_idx).
RECURSIVE BitAnd_or(_, _)
BitAnd_or(a, b) ==
    IF a = 0 /\ b = 0 THEN 0
    ELSE (IF (a % 2) = 1 \/ (b % 2) = 1 THEN 1 ELSE 0) + 2 * BitAnd_or(a \div 2, b \div 2)

RECURSIVE BitAnd(_, _)
BitAnd(a, b) ==
    IF a = 0 \/ b = 0 THEN 0
    ELSE (IF (a % 2) = 1 /\ (b % 2) = 1 THEN 1 ELSE 0) + 2 * BitAnd(a \div 2, b \div 2)

\* __get_buddy_at_index with the block size added instead of toggled.
__get_buddy_at_index_plus(page_idx, order) == page_idx + Pow2(order)

\* page_idx ^ (1UL << order)
__get_buddy_at_index(page_idx, order) == BitXor(page_idx, Pow2(order))

\* FREE_PAGE set and the order field equal to order; u is what a read of a
\* never-written order field yields.
__page_is_buddy(I, buddy, order, u) ==
    /\ I.pages[buddy].free
    /\ (IF I.pages[buddy].order = Uninit THEN u ELSE I.pages[buddy].order) = order

\* The sequence s without its first occurrence of x (list_head_remove).
RECURSIVE ListRemove(_, _)
ListRemove(s, x) ==
    IF s = <<>> THEN <<>>
    ELSE IF Head(s) = x THEN Tail(s)
    ELSE <<Head(s)>> \o ListRemove(Tail(s), x)

-----------------------------------------------------------------------------
(* The instance as one value, for the operators that transform it.         *)

Inst == [pages |-> pages, free_area |-> free_area,
         cache_list |-> free_pages_cache_list,
         cache_size |-> free_pages_cache_size,
         total_pages |-> total_pages]

\* buddy_system_init that does not test for a tail residue.
buddy_system_init_keeps_tail(pages_count) ==
    LET max_order  == MAX_BUDDYSYSTEM_GFP_ORDER - 1
        block_size == Pow2(max_order)
        nblocks    == pages_count \div block_size
        isroot(i)  == (i % block_size = 0) /\ (i + block_size <= pages_count)
    IN [pages |-> [i \in 0 .. (pages_count - 1) |->
                     [free  |-> TRUE,
                      root  |-> isroot(i),
                      order |-> IF isroot(i) THEN max_order ELSE Uninit]],
        free_area |-> [k \in Orders |->
                     IF k = max_order
                     THEN [free_list |-> [j \in 1 .. nblocks |-> (j - 1) * block_size],
                           nr_free   |-> nblocks]
                     ELSE [free_list |-> <<>>, nr_free |-> 0]],
        cache_list |-> free_pages_cache_list,
        cache_size |-> free_pages_cache_size,
        total_pages |-> pages_count,
        result |-> IF pages_count = 0 THEN 0 ELSE 1]

\* buddy_system_init over pages_count descriptors (the pointer arguments not
\* NULL): every descriptor FREE, the region installed as max-order blocks
\* appended to the last free list. free_pages_cache_list and
\* free_pages_cache_size are not written: they keep what the instance held.
\* The result is 0 when pages_count is 0, in which case nothing is written,
\* and when pages are left over after the last whole block, else 1.
buddy_system_init(pages_count) ==
    LET max_order  == MAX_BUDDYSYSTEM_GFP_ORDER - 1
        block_size == Pow2(max_order)
        nblocks    == pages_count \div block_size
        isroot(i)  == (i % block_size = 0) /\ (i + block_size <= pages_count)
    IN [pages |-> [i \in 0 .. (pages_count - 1) |->
                     [free  |-> TRUE,
                      root  |-> isroot(i),
                      order |-> IF isroot(i) THEN max_order ELSE Uninit]],
        free_area |-> [k \in Orders |->
                     IF k = max_order
                     THEN [free_list |-> [j \in 1 .. nblocks |-> (j - 1) * block_size],
                           nr_free   |-> nblocks]
                     ELSE [free_list |-> <<>>, nr_free |-> 0]],
        cache_list |-> free_pages_cache_list,
        cache_size |-> free_pages_cache_size,
        total_pages |-> pages_count,
        result |-> IF pages_count = 0 THEN 0
                   ELSE IF nblocks * block_size # pages_count THEN 0
                   ELSE 1]

-----------------------------------------------------------------------------
(* bb_alloc_pages                                                          *)

\* FindOrder with a search that stops one order early.
RECURSIVE FindOrder_short(_, _)
FindOrder_short(I, current_order) ==
    IF current_order >= MAX_BUDDYSYSTEM_GFP_ORDER - 1 THEN MAX_BUDDYSYSTEM_GFP_ORDER
    ELSE IF I.free_area[current_order].free_list # <<>> THEN current_order
    ELSE FindOrder_short(I, current_order + 1)

\* FindOrder that prefers the highest order whose free list is not empty.
RECURSIVE FindOrder_highest(_, _)
FindOrder_highest(I, current_order) ==
    IF current_order >= MAX_BUDDYSYSTEM_GFP_ORDER THEN MAX_BUDDYSYSTEM_GFP_ORDER
    ELSE LET above == FindOrder_highest(I, current_order + 1) IN
         IF above < MAX_BUDDYSYSTEM_GFP_ORDER THEN above
         ELSE IF I.free_area[current_order].free_list # <<>> THEN current_order
         ELSE MAX_BUDDYSYSTEM_GFP_ORDER

\* The first order from `order` up whose free list is not empty, or
\* MAX_BUDDYSYSTEM_GFP_ORDER when every one of them is empty.
RECURSIVE FindOrder(_, _)
FindOrder(I, current_order) ==
    IF current_order >= MAX_BUDDYSYSTEM_GFP_ORDER THEN MAX_BUDDYSYSTEM_GFP_ORDER
    ELSE IF I.free_area[current_order].free_list # <<>> THEN current_order
    ELSE FindOrder(I, current_order + 1)

\* SplitLoop without the final page->order = order.
RECURSIVE SplitLoop_stale_order(_, _, _, _, _)
SplitLoop_stale_order(I, page, order, current_order, size) ==
    IF current_order > order
    THEN LET co    == current_order - 1
             sz    == size \div 2
             buddy == page + sz
         IN IF ~I.pages[buddy].free \/ I.pages[buddy].root
            THEN [inst |-> I, page |-> NONE]
            ELSE SplitLoop_stale_order(
                   [I EXCEPT !.free_area[co].free_list = <<buddy>> \o @,
                             !.free_area[co].nr_free   = @ + 1,
                             !.pages[buddy].order      = co,
                             !.pages[buddy].root       = TRUE],
                   page, order, co, sz)
    ELSE [inst |-> [I EXCEPT !.pages[page].root  = TRUE,
                             !.pages[page].free  = FALSE],
          page |-> page]

\* SplitLoop without buddy->order = current_order.
RECURSIVE SplitLoop_buddy_order(_, _, _, _, _)
SplitLoop_buddy_order(I, page, order, current_order, size) ==
    IF current_order > order
    THEN LET co    == current_order - 1
             sz    == size \div 2
             buddy == page + sz
         IN IF ~I.pages[buddy].free \/ I.pages[buddy].root
            THEN [inst |-> I, page |-> NONE]
            ELSE SplitLoop_buddy_order(
                   [I EXCEPT !.free_area[co].free_list = <<buddy>> \o @,
                             !.free_area[co].nr_free   = @ + 1,
                             !.pages[buddy].root       = TRUE],
                   page, order, co, sz)
    ELSE [inst |-> [I EXCEPT !.pages[page].order = order,
                             !.pages[page].root  = TRUE,
                             !.pages[page].free  = FALSE],
          page |-> page]

\* SplitLoop without area->nr_free++ for the half put back.
RECURSIVE SplitLoop_no_count(_, _, _, _, _)
SplitLoop_no_count(I, page, order, current_order, size) ==
    IF current_order > order
    THEN LET co    == current_order - 1
             sz    == size \div 2
             buddy == page + sz
         IN IF ~I.pages[buddy].free \/ I.pages[buddy].root
            THEN [inst |-> I, page |-> NONE]
            ELSE SplitLoop_no_count(
                   [I EXCEPT !.free_area[co].free_list = <<buddy>> \o @,
                             !.pages[buddy].order      = co,
                             !.pages[buddy].root       = TRUE],
                   page, order, co, sz)
    ELSE [inst |-> [I EXCEPT !.pages[page].order = order,
                             !.pages[page].root  = TRUE,
                             !.pages[page].free  = FALSE],
          page |-> page]

\* The split loop: the right half of the block is put first on the list one
\* order down until the block has the requested order.
RECURSIVE SplitLoop(_, _, _, _, _)
SplitLoop(I, page, order, current_order, size) ==
    IF current_order > order
    THEN LET co    == current_order - 1
             sz    == size \div 2
             buddy == page + sz
         IN IF ~I.pages[buddy].free \/ I.pages[buddy].root
            THEN [inst |-> I, page |-> NONE]
            ELSE SplitLoop(
                   [I EXCEPT !.free_area[co].free_list = <<buddy>> \o @,
                             !.free_area[co].nr_free   = @ + 1,
                             !.pages[buddy].order      = co,
                             !.pages[buddy].root       = TRUE],
                   page, order, co, sz)
    ELSE [inst |-> [I EXCEPT !.pages[page].order = order,
                             !.pages[page].root  = TRUE,
                             !.pages[page].free  = FALSE],
          page |-> page]

\* bb_alloc_pages without list_head_remove of the block found.
bb_alloc_pages_keeps_link(I, order) ==
    IF order >= MAX_BUDDYSYSTEM_GFP_ORDER THEN [inst |-> I, page |-> NONE]
    ELSE LET current_order == FindOrder(I, order) IN
      IF current_order >= MAX_BUDDYSYSTEM_GFP_ORDER THEN [inst |-> I, page |-> NONE]
      ELSE LET area == I.free_area[current_order]
               page == Head(area.free_list)
               I1   == [I EXCEPT !.pages[page].free = FALSE]
           IN IF ~I1.pages[page].root THEN [inst |-> I1, page |-> NONE]
              ELSE IF area.nr_free = 0 THEN [inst |-> I1, page |-> NONE]
              ELSE SplitLoop([I1 EXCEPT !.free_area[current_order].nr_free = @ - 1],
                             page, order, current_order, Pow2(current_order))

\* bb_alloc_pages without area->nr_free-- for the block found.
bb_alloc_pages_keeps_count(I, order) ==
    IF order >= MAX_BUDDYSYSTEM_GFP_ORDER THEN [inst |-> I, page |-> NONE]
    ELSE LET current_order == FindOrder(I, order) IN
      IF current_order >= MAX_BUDDYSYSTEM_GFP_ORDER THEN [inst |-> I, page |-> NONE]
      ELSE LET area == I.free_area[current_order]
               page == Head(area.free_list)
               I1   == [I EXCEPT !.free_area[current_order].free_list = Tail(@),
                                 !.pages[page].free = FALSE]
           IN IF ~I1.pages[page].root THEN [inst |-> I1, page |-> NONE]
              ELSE IF area.nr_free = 0 THEN [inst |-> I1, page |-> NONE]
              ELSE SplitLoop(I1, page, order, current_order, Pow2(current_order))

\* bb_alloc_pages(instance, order): the instance afterwards and the
\* descriptor returned (NONE for NULL).
bb_alloc_pages(I, order) ==
    IF order >= MAX_BUDDYSYSTEM_GFP_ORDER THEN [inst |-> I, page |-> NONE]
    ELSE LET current_order == FindOrder(I, order) IN
      IF current_order >= MAX_BUDDYSYSTEM_GFP_ORDER THEN [inst |-> I, page |-> NONE]
      ELSE LET area == I.free_area[current_order]
               page == Head(area.free_list)
               I1   == [I EXCEPT !.free_area[current_order].free_list = Tail(@),
                                 !.pages[page].free = FALSE]
           IN IF ~I1.pages[page].root THEN [inst |-> I1, page |-> NONE]
              ELSE IF area.nr_free = 0 THEN [inst |-> I1, page |-> NONE]
              ELSE SplitLoop([I1 EXCEPT !.free_area[current_order].nr_free = @ - 1],
                             page, order, current_order, Pow2(current_order))

-----------------------------------------------------------------------------
(* bb_free_pages                                                           *)

\* MergeLoop without clearing ROOT on the forgotten page.
RECURSIVE MergeLoop_keeps_root(_, _, _, _)
MergeLoop_keeps_root(I, page_idx, order, u) ==
    IF order < MAX_BUDDYSYSTEM_GFP_ORDER - 1
    THEN LET buddy_idx == __get_buddy_at_index(page_idx, order) IN
         IF buddy_idx >= I.total_pages
         THEN [inst |-> I, page_idx |-> page_idx, order |-> order, abort |-> TRUE]
         ELSE IF ~__page_is_buddy(I, buddy_idx, order, u)
         THEN [inst |-> I, page_idx |-> page_idx, order |-> order, abort |-> FALSE]
         ELSE LET forgot_page == IF buddy_idx > page_idx THEN buddy_idx ELSE page_idx
              IN MergeLoop_keeps_root(
                   [I EXCEPT !.free_area[order].free_list = ListRemove(@, buddy_idx),
                             !.free_area[order].nr_free   = @ - 1,
                             !.pages[forgot_page].free    = TRUE],
                   BitAnd(page_idx, buddy_idx), order + 1, u)
    ELSE [inst |-> I, page_idx |-> page_idx, order |-> order, abort |-> FALSE]

\* MergeLoop that merges with one buddy at most.
MergeLoop_once(I, page_idx, order, u) ==
    IF order < MAX_BUDDYSYSTEM_GFP_ORDER - 1
    THEN LET buddy_idx == __get_buddy_at_index(page_idx, order) IN
         IF buddy_idx >= I.total_pages
         THEN [inst |-> I, page_idx |-> page_idx, order |-> order, abort |-> TRUE]
         ELSE IF ~__page_is_buddy(I, buddy_idx, order, u)
         THEN [inst |-> I, page_idx |-> page_idx, order |-> order, abort |-> FALSE]
         ELSE LET forgot_page == IF buddy_idx > page_idx THEN buddy_idx ELSE page_idx
              IN [inst |-> [I EXCEPT !.free_area[order].free_list = ListRemove(@, buddy_idx),
                                     !.free_area[order].nr_free   = @ - 1,
                                     !.pages[forgot_page].root    = FALSE,
                                     !.pages[forgot_page].free    = TRUE],
                  page_idx |-> BitAnd(page_idx, buddy_idx), order |-> order + 1,
                  abort |-> FALSE]
    ELSE [inst |-> I, page_idx |-> page_idx, order |-> order, abort |-> FALSE]

\* The coalescing loop: [inst, page_idx, order, abort] when it ends.
RECURSIVE MergeLoop(_, _, _, _)
MergeLoop(I, page_idx, order, u) ==
    IF order < MAX_BUDDYSYSTEM_GFP_ORDER - 1
    THEN LET buddy_idx == __get_buddy_at_index(page_idx, order) IN
         IF buddy_idx >= I.total_pages
         THEN [inst |-> I, page_idx |-> page_idx, order |-> order, abort |-> TRUE]
         ELSE IF ~__page_is_buddy(I, buddy_idx, order, u)
         THEN [inst |-> I, page_idx |-> page_idx, order |-> order, abort |-> FALSE]
         ELSE LET forgot_page == IF buddy_idx > page_idx THEN buddy_idx ELSE page_idx
              IN MergeLoop(
                   [I EXCEPT !.free_area[order].free_list = ListRemove(@, buddy_idx),
                             !.free_area[order].nr_free   = @ - 1,
                             !.pages[forgot_page].root    = FALSE,
                             !.pages[forgot_page].free    = TRUE],
                   BitAnd(page_idx, buddy_idx), order + 1, u)
    ELSE [inst |-> I, page_idx |-> page_idx, order |-> order, abort |-> FALSE]

\* bb_free_pages without the test of FREE_PAGE.
bb_free_pages_no_free_test(I, page, u) ==
    IF page = NONE THEN I
    ELSE IF page < 0 \/ page >= I.total_pages THEN I
    ELSE IF ~I.pages[page].root THEN I
    ELSE LET order == IF I.pages[page].order = Uninit THEN u ELSE I.pages[page].order
             m     == MergeLoop(I, page, order, u) IN
         IF m.abort THEN m.inst
         ELSE [m.inst EXCEPT !.pages[m.page_idx].order = m.order,
                             !.pages[m.page_idx].root  = TRUE,
                             !.pages[m.page_idx].free  = TRUE,
                             !.free_area[m.order].free_list = <<m.page_idx>> \o @,
                             !.free_area[m.order].nr_free   = @ + 1]

\* bb_free_pages without the coalescing loop.
bb_free_pages_no_merge(I, page, u) ==
    IF page = NONE THEN I
    ELSE IF page < 0 \/ page >= I.total_pages THEN I
    ELSE IF I.pages[page].free THEN I
    ELSE IF ~I.pages[page].root THEN I
    ELSE LET order == IF I.pages[page].order = Uninit THEN u ELSE I.pages[page].order
         IN [I EXCEPT !.pages[page].order = order,
                      !.pages[page].root  = TRUE,
                      !.pages[page].free  = TRUE,
                      !.free_area[order].free_list = <<page>> \o @,
                      !.free_area[order].nr_free   = @ + 1]

\* bb_free_pages(instance, page): the instance afterwards; page is the index
\* of the descriptor the caller passes.
bb_free_pages(I, page, u) ==
    IF page = NONE THEN I
    ELSE IF page < 0 \/ page >= I.total_pages THEN I
    ELSE IF I.pages[page].free THEN I
    ELSE IF ~I.pages[page].root THEN I
    ELSE LET order == IF I.pages[page].order = Uninit THEN u ELSE I.pages[page].order
             m     == MergeLoop(I, page, order, u) IN
         IF m.abort THEN m.inst
         ELSE [m.inst EXCEPT !.pages[m.page_idx].order = m.order,
                             !.pages[m.page_idx].root  = TRUE,
                             !.pages[m.page_idx].free  = TRUE,
                             !.free_area[m.order].free_list = <<m.page_idx>> \o @,
                             !.free_area[m.order].nr_free   = @ + 1]

-----------------------------------------------------------------------------
(* The page cache                                                          *)

\* __cache_extend: count order-0 blocks go from the buddy to the front of
\* the cache list. When bb_alloc_pages returns NULL the loop passes
\* &page->location.cache of the NULL descriptor to list_head_insert_after,
\* which writes through it: either the access faults (fault) and the kernel
\* stops, or the node of no descriptor (NONE) is linked at the front of the
\* cache list and counted. Linked a second time, that node points to itself
\* and the nodes behind it are no longer on the list: the sequence
\* <<NONE, NONE>> stands for that cycle.
RECURSIVE __cache_extend(_, _, _)
__cache_extend(I, count, fault) ==
    IF count <= 0 THEN [inst |-> I, crash |-> FALSE]
    ELSE LET r == bb_alloc_pages(I, 0) IN
         IF r.page = NONE
         THEN IF fault THEN [inst |-> r.inst, crash |-> TRUE]
              ELSE __cache_extend(
                     [r.inst EXCEPT !.cache_list = IF @ # <<>> /\ Head(@) = NONE
                                                   THEN <<NONE, NONE>>
                                                   ELSE <<NONE>> \o @,
                                    !.cache_size = @ + 1],
                     count - 1, fault)
         ELSE __cache_extend([r.inst EXCEPT !.cache_list = <<r.page>> \o @,
                                            !.cache_size = @ + 1],
                             count - 1, fault)

\* __cache_shrink: count times, the head of the cache list is popped and
\* given to bb_free_pages; popping an empty list gives no descriptor of the
\* table, which bb_free_pages rejects.
RECURSIVE __cache_shrink(_, _, _)
__cache_shrink(I, count, u) ==
    IF count <= 0 THEN I
    ELSE LET page == IF I.cache_list = <<>> THEN I.total_pages ELSE Head(I.cache_list)
             I1   == [I EXCEPT !.cache_list = IF @ = <<>> THEN @ ELSE Tail(@)]
             I2   == bb_free_pages(I1, page, u)
         IN __cache_shrink([I2 EXCEPT !.cache_size = @ - 1], count - 1, u)

\* __cached_alloc: refill below the low watermark, then pop the head; the
\* descriptor that list_entry computes from the node of no descriptor is
\* NULL (NONE), and unlinking a node that points to itself leaves it linked.
__cached_alloc(I, fault) ==
    LET e == IF I.cache_size < LOW_WATERMARK_LEVEL
             THEN __cache_extend(I, MID_WATERMARK_LEVEL - I.cache_size, fault)
             ELSE [inst |-> I, crash |-> FALSE]
    IN IF e.crash THEN [inst |-> e.inst, page |-> NONE, crash |-> TRUE]
       ELSE IF e.inst.cache_list = <<>>
       THEN [inst |-> e.inst, page |-> BadPage, crash |-> FALSE]
       ELSE IF Len(e.inst.cache_list) >= 2 /\ e.inst.cache_list[1] = NONE
                                            /\ e.inst.cache_list[2] = NONE
       THEN [inst |-> e.inst, page |-> NONE, crash |-> FALSE]
       ELSE [inst |-> [e.inst EXCEPT !.cache_list = Tail(@)],
             page |-> Head(e.inst.cache_list), crash |-> FALSE]

\* The push counted in cache_size and the drain left out.
__cached_free_no_drain(I, page, u) ==
    [I EXCEPT !.cache_list = <<page>> \o @, !.cache_size = @ + 1]

\* __cached_free that hands the page to the buddy instead of the cache.
__cached_free_to_buddy(I, page, u) ==
    bb_free_pages(I, page, u)

\* __cached_free: push the page, drain above the high watermark.
__cached_free(I, page, u) ==
    LET I1 == [I EXCEPT !.cache_list = <<page>> \o @] IN
    IF I1.cache_size > HIGH_WATERMARK_LEVEL
    THEN __cache_shrink(I1, I1.cache_size - MID_WATERMARK_LEVEL, u)
    ELSE I1

-----------------------------------------------------------------------------
(* The calls on the instance                                               *)

\* The instance variables take the value I.
SetInst(I) ==
    /\ pages' = I.pages
    /\ free_area' = I.free_area
    /\ free_pages_cache_list' = I.cache_list
    /\ free_pages_cache_size' = I.cache_size
    /\ total_pages' = I.total_pages

\* Pages the cache owns or has handed out: not the caller's to bb_free_pages.
CacheOwned == {free_pages_cache_list[i] : i \in 1 .. Len(free_pages_cache_list)} \cup cheld

\* bb_alloc_pages is called for some order (one more than the largest
\* included); callers never hold more than limit blocks.
AllocPagesUpTo(limit) ==
    /\ ~crashed
    /\ \E order \in 0 .. MAX_BUDDYSYSTEM_GFP_ORDER :
         LET r == bb_alloc_pages(Inst, order) IN
         /\ r.page = NONE \/ Cardinality(held) < limit
         /\ SetInst(r.inst)
         /\ held' = IF r.page = NONE THEN held
                    ELSE held \cup {[idx |-> r.page, order |-> order]}
         /\ ret' = [op |-> "alloc", order |-> order, page |-> r.page,
                    valid |-> order < MAX_BUDDYSYSTEM_GFP_ORDER]
    /\ UNCHANGED <<cheld, crashed>>
    /\ UNCHANGED ivars
    /\ UNCHANGED svars

\* A caller asks for a block.
AllocPages == AllocPagesUpTo(MaxHeld)

\* A caller asks for a block while the cache is in use.
AllocBesideCache == AllocPagesUpTo(MaxHeldCache)

\* bb_free_pages is called with one of the descriptors in Candidates.
FreePagesOf(Candidates) ==
    /\ ~crashed
    /\ \E page \in Candidates \ CacheOwned :
         /\ \E I \in {bb_free_pages(Inst, page, u) : u \in Orders} : SetInst(I)
         /\ held' = {h \in held : h.idx # page}
         /\ ret' = [op |-> "free", order |-> 0, page |-> page,
                    valid |-> \E h \in held : h.idx = page]
    /\ UNCHANGED <<cheld, crashed>>
    /\ UNCHANGED ivars
    /\ UNCHANGED svars

\* A caller frees a descriptor: a block it holds, a descriptor it does not
\* hold (stale or interior), NULL, or one past the table.
FreePages == FreePagesOf(-1 .. total_pages)

\* A caller frees a block it holds.
FreeHeld == FreePagesOf({h.idx : h \in held})

\* A caller that holds fewer than limit pages takes a page from the cache.
AllocPageCachedUpTo(limit) ==
    /\ ~crashed
    /\ Cardinality(cheld) < limit
    /\ \E fault \in BOOLEAN :
         LET r == __cached_alloc(Inst, fault) IN
         /\ SetInst(r.inst)
         /\ crashed' = r.crash
         /\ cheld' = IF r.crash \/ r.page = NONE THEN cheld ELSE cheld \cup {r.page}
         /\ ret' = [op |-> "cached_alloc", order |-> 0, page |-> r.page, valid |-> TRUE]
    /\ UNCHANGED held
    /\ UNCHANGED ivars
    /\ UNCHANGED svars

\* A caller takes a page from the cache.
AllocPageCached == AllocPageCachedUpTo(MaxCacheHeld)

\* A caller takes a page from the cache, keeping the pages it took before.
DrainPageCached == AllocPageCachedUpTo(MaxDrained)

\* A caller gives one of the pages of Candidates that it took from the
\* cache back to the cache.
FreePageCachedOf(Candidates) ==
    /\ ~crashed
    /\ \E page \in Candidates \cap cheld :
         /\ page # BadPage
         /\ \E I \in {__cached_free(Inst, page, u) : u \in Orders} : SetInst(I)
         /\ cheld' = cheld \ {page}
         /\ ret' = [op |-> "cached_free", order |-> 0, page |-> page, valid |-> TRUE]
    /\ UNCHANGED <<held, crashed>>
    /\ UNCHANGED ivars
    /\ UNCHANGED svars

\* A caller gives a page it took from the cache back to the cache.
FreePageCached == FreePageCachedOf(cheld)

\* A caller gives the page it has just taken from the cache back to it.
FreeLastCached ==
    /\ ret.op = "cached_alloc"
    /\ FreePageCachedOf({ret.page})

\* Process context is in no call of the allocator.
Idle == [pc |-> "idle"]

\* A zone of n max-order blocks after buddy_system_init, on an instance
\* whose cache was an empty list of size 0 before the call; process context
\* runs with interrupts enabled.
InitZone(n) ==
    /\ free_pages_cache_list = <<>>
    /\ free_pages_cache_size = 0
    /\ LET I == buddy_system_init(n * Pow2(MAX_BUDDYSYSTEM_GFP_ORDER - 1)) IN
         /\ pages = I.pages
         /\ free_area = I.free_area
         /\ total_pages = I.total_pages
    /\ held = {}
    /\ cheld = {}
    /\ ret = [op |-> "init", order |-> 0, page |-> NONE, valid |-> TRUE]
    /\ crashed = FALSE
    /\ irq_enabled = TRUE
    /\ inflight = Idle

\* The instance before buddy_system_init: the cache fields hold whatever
\* the memory held, an empty list or links to no descriptor of the
\* instance, and a size of zero or not.
BootZone ==
    /\ pages = <<>>
    /\ free_area = [k \in Orders |-> [free_list |-> <<>>, nr_free |-> 0]]
    /\ free_pages_cache_list \in {<<>>, <<BadPage>>}
    /\ free_pages_cache_size \in {0, 1, LOW_WATERMARK_LEVEL}
    /\ total_pages = 0
    /\ held = {}
    /\ cheld = {}
    /\ ret = [op |-> "boot", order |-> 0, page |-> NONE, valid |-> TRUE]
    /\ crashed = FALSE
    /\ irq_enabled = TRUE
    /\ inflight = Idle

\* The kernel calls buddy_system_init once, over a region of pages_count
\* descriptors, and does not go on with a zone it could not initialise.
BuddySystemInit ==
    /\ ret.op = "boot"
    /\ \E pages_count \in 0 .. MaxInitPages :
         LET I == buddy_system_init(pages_count) IN
         /\ SetInst(I)
         /\ ret' = [op |-> "init", order |-> 0, page |-> NONE,
                    valid |-> I.result = 1, count |-> pages_count]
         /\ crashed' = (I.result = 0)
    /\ UNCHANGED <<held, cheld>>
    /\ UNCHANGED ivars
    /\ UNCHANGED svars

\* bb_alloc_pages on the zone once it is initialised.
AllocAfterInit == ret.op # "boot" /\ AllocPages

-----------------------------------------------------------------------------
(* bb_alloc_pages statement by statement, and the interrupt handler        *)

\* What a call of bb_alloc_pages in process context returns to its caller.
AllocReturn(order, page) ==
    /\ inflight' = Idle
    /\ ret' = [op |-> "alloc", order |-> order, page |-> page,
               valid |-> order < MAX_BUDDYSYSTEM_GFP_ORDER]
    /\ held' = IF page = NONE THEN held
               ELSE held \cup {[idx |-> page, order |-> order]}

\* Process context enters bb_alloc_pages: the order is validated and the
\* free lists are searched from the requested order up. The function does
\* not touch the interrupt flag.
AllocSearch ==
    /\ ~crashed
    /\ inflight = Idle
    /\ Cardinality(held) < MaxHeld
    /\ \E order \in 0 .. MAX_BUDDYSYSTEM_GFP_ORDER :
         LET current_order == FindOrder(Inst, order) IN
         IF order >= MAX_BUDDYSYSTEM_GFP_ORDER \/ current_order >= MAX_BUDDYSYSTEM_GFP_ORDER
         THEN AllocReturn(order, NONE)
         ELSE /\ inflight' = [pc |-> "block_found", order |-> order,
                              current_order |-> current_order, page |-> NONE, size |-> 0]
              /\ UNCHANGED <<held, ret>>
    /\ UNCHANGED <<pages, free_area, free_pages_cache_list, free_pages_cache_size,
                   total_pages, cheld, crashed, irq_enabled>>
    /\ UNCHANGED svars

\* block_found: page = list_entry(area->free_list.next, ...). On a list that
\* was emptied in the meantime next is the list head itself and the result
\* is no descriptor: what the statements after it then do is not defined.
AllocEntry ==
    /\ ~crashed
    /\ inflight.pc = "block_found"
    /\ LET list == free_area[inflight.current_order].free_list IN
         IF list = <<>>
         THEN /\ \/ crashed' = TRUE /\ inflight' = Idle /\ UNCHANGED <<held, ret>>
                 \/ crashed' = FALSE /\ AllocReturn(inflight.order, NONE)
         ELSE /\ inflight' = [inflight EXCEPT !.pc = "remove", !.page = Head(list)]
              /\ UNCHANGED <<held, ret, crashed>>
    /\ UNCHANGED <<pages, free_area, free_pages_cache_list, free_pages_cache_size,
                   total_pages, cheld, irq_enabled>>
    /\ UNCHANGED svars

\* list_head_remove of the descriptor, FREE_PAGE cleared, the tests of
\* ROOT_PAGE and of nr_free, area->nr_free--.
AllocRemove ==
    /\ ~crashed
    /\ inflight.pc = "remove"
    /\ LET page == inflight.page
           co   == inflight.current_order
           I1   == [Inst EXCEPT !.free_area[co].free_list = ListRemove(@, page),
                                !.pages[page].free = FALSE]
       IN IF ~I1.pages[page].root \/ I1.free_area[co].nr_free = 0
          THEN SetInst(I1) /\ AllocReturn(inflight.order, NONE)
          ELSE /\ SetInst([I1 EXCEPT !.free_area[co].nr_free = @ - 1])
               /\ inflight' = [inflight EXCEPT !.pc = "split", !.size = Pow2(co)]
               /\ UNCHANGED <<held, ret>>
    /\ UNCHANGED <<cheld, crashed, irq_enabled>>
    /\ UNCHANGED svars

\* One iteration of the split loop, or, when the block has the requested
\* order, the statements after the loop and the return.
AllocSplit ==
    /\ ~crashed
    /\ inflight.pc = "split"
    /\ IF inflight.current_order > inflight.order
       THEN LET co    == inflight.current_order - 1
                sz    == inflight.size \div 2
                buddy == inflight.page + sz
            IN IF ~pages[buddy].free \/ pages[buddy].root
               THEN /\ AllocReturn(inflight.order, NONE)
                    /\ UNCHANGED <<pages, free_area, free_pages_cache_list,
                                   free_pages_cache_size, total_pages>>
               ELSE /\ SetInst([Inst EXCEPT !.free_area[co].free_list = <<buddy>> \o @,
                                            !.free_area[co].nr_free   = @ + 1,
                                            !.pages[buddy].order      = co,
                                            !.pages[buddy].root       = TRUE])
                    /\ inflight' = [inflight EXCEPT !.current_order = co, !.size = sz]
                    /\ UNCHANGED <<held, ret>>
       ELSE /\ SetInst([Inst EXCEPT !.pages[inflight.page].order = inflight.order,
                                    !.pages[inflight.page].root  = TRUE,
                                    !.pages[inflight.page].free  = FALSE])
            /\ AllocReturn(inflight.order, inflight.page)
    /\ UNCHANGED <<cheld, crashed, irq_enabled>>
    /\ UNCHANGED svars

\* An interrupt arrives while interrupts are enabled and its handler calls
\* bb_alloc_pages; the handler runs to its end before process context goes
\* on.
IrqAlloc ==
    /\ ~crashed
    /\ irq_enabled
    /\ Cardinality(held) < MaxHeld
    /\ \E order \in Orders :
         LET r == bb_alloc_pages(Inst, order) IN
         /\ SetInst(r.inst)
         /\ held' = IF r.page = NONE THEN held
                    ELSE held \cup {[idx |-> r.page, order |-> order]}
    /\ UNCHANGED <<cheld, ret, crashed>>
    /\ UNCHANGED ivars
    /\ UNCHANGED svars

\* Process context, in no call of the allocator, frees a block it holds.
FreeWhenIdle == inflight = Idle /\ FreeHeld

-----------------------------------------------------------------------------
(* The scheduler                                                           *)

Tasks == 1 .. NTasks

\* The build symbols of which exactly one is defined.
Policies == {"SCHEDULER_RR", "SCHEDULER_PRIORITY", "SCHEDULER_CFS",
             "SCHEDULER_EDF", "SCHEDULER_RM", "SCHEDULER_AEDF"}

\* The initial value of min in the periodic policies, above every deadline
\* and period (4294967295 in the source; the largest integer of the model
\* checker stands for it, the times of the model being a few ticks).
UINT_MAX == 2147483647

\* process/prio.h: the load of a task of nice 0, and the load of each static
\* priority 100 .. 139 (nice -20 .. 19).
NICE_0_LOAD == 1024

prio_to_weight ==
    << 88761, 71755, 56483, 46273, 36291,
       29154, 23254, 18705, 14949, 11916,
       9548, 7620, 6100, 4904, 3906,
       3121, 2501, 1991, 1586, 1277,
       1024, 820, 655, 526, 423,
       335, 272, 215, 172, 137,
       110, 87, 70, 56, 45,
       36, 29, 23, 18, 15 >>

GET_WEIGHT(prio) == prio_to_weight[prio - 100 + 1]

\* A task descriptor that is not queued yet.
NewTask ==
    [state |-> "NEW", is_periodic |-> FALSE, is_under_analysis |-> FALSE,
     prio |-> 120, exec_start |-> 0, exec_runtime |-> 0,
     sum_exec_runtime |-> 0, vruntime |-> 0,
     period |-> 0, deadline |-> 0, next_period |-> 0, executed |-> FALSE]

\* task->se.is_periodic && !task->se.is_under_analysis
__is_periodic_task(task) ==
    tasks[task].is_periodic /\ ~tasks[task].is_under_analysis

\* Position of task t in the sequence q (0 when absent).
RECURSIVE IndexOf(_, _)
IndexOf(q, t) ==
    IF q = <<>> THEN 0
    ELSE IF Head(q) = t THEN 1
    ELSE LET r == IndexOf(Tail(q), t) IN IF r = 0 THEN 0 ELSE r + 1

\* The loop started at the head of the queue instead of at curr's node.
VisitedFrom_head(q, c) == SelectSeq(q, LAMBDA t : t # c)

\* The tasks list_for_each visits from curr's node: those after curr to the
\* end of the queue, the sentinel (skipped), those before curr; never curr.
VisitedFrom(q, c) ==
    LET pos == IndexOf(q, c) IN
    SubSeq(q, pos + 1, Len(q)) \o SubSeq(q, 1, pos - 1)

\* The loop without its test of the task state.
FirstEligible_any_state(visit, skip_periodic) ==
    IF visit = <<>> THEN NONE ELSE Head(visit)

\* The first task of the sequence the loop accepts, NONE at its end.
RECURSIVE FirstEligible(_, _)
FirstEligible(visit, skip_periodic) ==
    IF visit = <<>> THEN NONE
    ELSE LET entry == Head(visit) IN
         IF tasks[entry].state # "TASK_RUNNING" THEN FirstEligible(Tail(visit), skip_periodic)
         ELSE IF __is_periodic_task(entry) /\ skip_periodic
              THEN FirstEligible(Tail(visit), skip_periodic)
         ELSE entry

\* __scheduler_rr: curr when it is alone in the list (list_head_size counts
\* the other tasks and the sentinel), else the first eligible task after it.
__scheduler_rr(skip_periodic) ==
    IF Len(queue) <= 1 THEN curr
    ELSE FirstEligible(VisitedFrom(queue, curr), skip_periodic)

\* __scheduler_priority. The source elides the initial value of min and the
\* test and body of the inner if; they are read from the comments on them:
\* min starts as the static priority of the first element of the list, and
\* an entry of lower priority value becomes next and sets min.
RECURSIVE PriorityLoop(_, _, _, _, _)
PriorityLoop(T, visit, skip_periodic, nxt, min) ==
    IF visit = <<>> THEN nxt
    ELSE LET entry == Head(visit) IN
         IF T[entry].state # "TASK_RUNNING"
         THEN PriorityLoop(T, Tail(visit), skip_periodic, nxt, min)
         ELSE IF __is_periodic_task(entry) /\ skip_periodic
         THEN PriorityLoop(T, Tail(visit), skip_periodic, nxt, min)
         ELSE IF T[entry].prio < min
         THEN PriorityLoop(T, Tail(visit), skip_periodic, entry, T[entry].prio)
         ELSE PriorityLoop(T, Tail(visit), skip_periodic, nxt, min)

__scheduler_priority(T, skip_periodic) ==
    LET first == Head(queue) IN
    PriorityLoop(T, queue, skip_periodic, first, T[first].prio)

\* __scheduler_cfs, its elided expressions read from the comments on them:
\* min starts as the vruntime of the first element of the list, and an entry
\* of smaller vruntime becomes next and sets min.
RECURSIVE CfsLoop(_, _, _, _, _)
CfsLoop(T, visit, skip_periodic, nxt, min) ==
    IF visit = <<>> THEN nxt
    ELSE LET entry == Head(visit) IN
         IF T[entry].state # "TASK_RUNNING"
         THEN CfsLoop(T, Tail(visit), skip_periodic, nxt, min)
         ELSE IF __is_periodic_task(entry) /\ skip_periodic
         THEN CfsLoop(T, Tail(visit), skip_periodic, nxt, min)
         ELSE IF T[entry].vruntime < min
         THEN CfsLoop(T, Tail(visit), skip_periodic, entry, T[entry].vruntime)
         ELSE CfsLoop(T, Tail(visit), skip_periodic, nxt, min)

__scheduler_cfs(T, skip_periodic) ==
    LET first == Head(queue) IN
    CfsLoop(T, queue, skip_periodic, first, T[first].vruntime)

\* AedfLoop that passes over an entry whose deadline has passed.
RECURSIVE AedfLoop_skips_missed(_, _, _, _)
AedfLoop_skips_missed(T, visit, nxt, min) ==
    IF visit = <<>> THEN nxt
    ELSE LET entry == Head(visit) IN
         IF T[entry].state # "TASK_RUNNING" THEN AedfLoop_skips_missed(T, Tail(visit), nxt, min)
         ELSE IF ~__is_periodic_task(entry) THEN AedfLoop_skips_missed(T, Tail(visit), nxt, min)
         ELSE IF T[entry].deadline < ticks THEN AedfLoop_skips_missed(T, Tail(visit), nxt, min)
         ELSE IF T[entry].deadline < min
         THEN AedfLoop_skips_missed(T, Tail(visit), entry, T[entry].deadline)
         ELSE AedfLoop_skips_missed(T, Tail(visit), nxt, min)

\* The loop of __scheduler_aedf over the RUNNING periodic tasks; the elided
\* comparison is the deadline of the entry against min (the warning on a
\* passed deadline changes nothing).
RECURSIVE AedfLoop(_, _, _, _)
AedfLoop(T, visit, nxt, min) ==
    IF visit = <<>> THEN nxt
    ELSE LET entry == Head(visit) IN
         IF T[entry].state # "TASK_RUNNING" THEN AedfLoop(T, Tail(visit), nxt, min)
         ELSE IF ~__is_periodic_task(entry) THEN AedfLoop(T, Tail(visit), nxt, min)
         ELSE IF T[entry].deadline < min
         THEN AedfLoop(T, Tail(visit), entry, T[entry].deadline)
         ELSE AedfLoop(T, Tail(visit), nxt, min)

\* __scheduler_aedf: next starts as the first element of the list, so the
\* test of next before the round-robin fall-through always succeeds.
__scheduler_aedf(T) ==
    LET nxt == AedfLoop(T, queue, Head(queue), UINT_MAX) IN
    IF nxt # NONE THEN [tasks |-> T, next |-> nxt]
    ELSE [tasks |-> T, next |-> __scheduler_rr(FALSE)]

\* The elided test of the rollover: the next period of the entry has started.
PeriodStartsAgain(T, entry) == T[entry].next_period <= ticks

\* The elided right-hand sides of the rollover: executed is cleared, deadline
\* and next_period advance by the period.
ExecutableAgain(T, entry) ==
    [T EXCEPT ![entry].executed = FALSE,
              ![entry].deadline = @ + T[entry].period,
              ![entry].next_period = @ + T[entry].period]

\* PeriodicLoop that does not pass over the tasks that are not RUNNING.
RECURSIVE PeriodicLoop_any_state(_, _, _, _, _)
PeriodicLoop_any_state(T, visit, nxt, min, key) ==
    IF visit = <<>> THEN [tasks |-> T, next |-> nxt]
    ELSE LET entry == Head(visit) IN
         IF ~__is_periodic_task(entry) THEN PeriodicLoop_any_state(T, Tail(visit), nxt, min, key)
         ELSE IF ~T[entry].executed THEN PeriodicLoop_any_state(T, Tail(visit), nxt, min, key)
         ELSE IF PeriodStartsAgain(T, entry)
         THEN PeriodicLoop_any_state(ExecutableAgain(T, entry), Tail(visit), nxt, min, key)
         ELSE IF T[entry][key] < min
         THEN PeriodicLoop_any_state(T, Tail(visit), entry, T[entry][key], key)
         ELSE PeriodicLoop_any_state(T, Tail(visit), nxt, min, key)

\* The loop of __scheduler_edf (key "deadline") and of __scheduler_rm (key
\* "next_period"). The elided expressions are read from the comments on
\* them: an executed entry whose next period has started (next_period <=
\* ticks) has executed cleared and deadline and next_period advanced by its
\* period; an executed entry whose period has not started is picked when its
\* key is below min. An entry that has not executed is passed over.
RECURSIVE PeriodicLoop(_, _, _, _, _)
PeriodicLoop(T, visit, nxt, min, key) ==
    IF visit = <<>> THEN [tasks |-> T, next |-> nxt]
    ELSE LET entry == Head(visit) IN
         IF T[entry].state # "TASK_RUNNING" THEN PeriodicLoop(T, Tail(visit), nxt, min, key)
         ELSE IF ~__is_periodic_task(entry) THEN PeriodicLoop(T, Tail(visit), nxt, min, key)
         ELSE IF ~T[entry].executed THEN PeriodicLoop(T, Tail(visit), nxt, min, key)
         ELSE IF PeriodStartsAgain(T, entry)
         THEN PeriodicLoop(ExecutableAgain(T, entry), Tail(visit), nxt, min, key)
         ELSE IF T[entry][key] < min
         THEN PeriodicLoop(T, Tail(visit), entry, T[entry][key], key)
         ELSE PeriodicLoop(T, Tail(visit), nxt, min, key)

__scheduler_edf(T) ==
    LET r == PeriodicLoop(T, queue, NONE, UINT_MAX, "deadline") IN
    IF r.next # NONE THEN r
    ELSE [tasks |-> r.tasks, next |-> __scheduler_rr(FALSE)]

\* __scheduler_rm whose round-robin fall-through skips the periodic tasks.
__scheduler_rm_skips_periodic(T) ==
    LET r == PeriodicLoop(T, queue, NONE, UINT_MAX, "next_period") IN
    IF r.next # NONE THEN r
    ELSE [tasks |-> r.tasks, next |-> __scheduler_rr(TRUE)]

__scheduler_rm(T) ==
    LET r == PeriodicLoop(T, queue, NONE, UINT_MAX, "next_period") IN
    IF r.next # NONE THEN r
    ELSE [tasks |-> r.tasks, next |-> __scheduler_rr(FALSE)]

\* (int)((double)exec_runtime * ((double)NICE_0_LOAD / (double)weight)): the
\* product cut to its integer part. For every weight of prio_to_weight and
\* every exec_runtime up to 20000 the double product cut this way is the
\* integer quotient below.
ScaledExecRuntime(exec_runtime, weight) ==
    (exec_runtime * NICE_0_LOAD) \div weight

\* The update with the run time measured from tick 0 instead of exec_start.
__update_task_statistics_from_zero(T, task) ==
    IF policy \in {"SCHEDULER_RR", "SCHEDULER_PRIORITY"} THEN T
    ELSE LET T1 == [T EXCEPT ![task].exec_runtime = ticks,
                             ![task].sum_exec_runtime = @ + ticks]
         IN IF T1[task].is_periodic THEN T1
            ELSE LET weight == GET_WEIGHT(T1[task].prio)
                     run == IF weight # NICE_0_LOAD
                            THEN ScaledExecRuntime(ticks, weight)
                            ELSE ticks
                 IN [T1 EXCEPT ![task].exec_runtime = run,
                               ![task].vruntime = @ + run]

\* The update with the vruntime kept only for a periodic task that is not
\* under analysis.
__update_task_statistics_analysis(T, task) ==
    IF policy \in {"SCHEDULER_RR", "SCHEDULER_PRIORITY"} THEN T
    ELSE LET delta == ticks - T[task].exec_start
             T1 == [T EXCEPT ![task].exec_runtime = delta,
                             ![task].sum_exec_runtime = @ + delta]
         IN IF __is_periodic_task(task) THEN T1
            ELSE LET weight == GET_WEIGHT(T1[task].prio)
                     run == IF weight # NICE_0_LOAD
                            THEN ScaledExecRuntime(delta, weight)
                            ELSE delta
                 IN [T1 EXCEPT ![task].exec_runtime = run,
                               ![task].vruntime = @ + run]

\* __update_task_statistics: compiled to nothing in the round-robin and the
\* static priority builds. exec_start is a tick that has passed, so the
\* unsigned difference does not wrap.
__update_task_statistics(T, task) ==
    IF policy \in {"SCHEDULER_RR", "SCHEDULER_PRIORITY"} THEN T
    ELSE LET delta == ticks - T[task].exec_start
             T1 == [T EXCEPT ![task].exec_runtime = delta,
                             ![task].sum_exec_runtime = @ + delta]
         IN IF T1[task].is_periodic THEN T1
            ELSE LET weight == GET_WEIGHT(T1[task].prio)
                     run == IF weight # NICE_0_LOAD
                            THEN ScaledExecRuntime(delta, weight)
                            ELSE delta
                 IN [T1 EXCEPT ![task].exec_runtime = run,
                               ![task].vruntime = @ + run]

\* The dispatch of scheduler_pick_next_task on the build symbol.
PolicyChoice(T) ==
    CASE policy = "SCHEDULER_RR" -> [tasks |-> T, next |-> __scheduler_rr(FALSE)]
      [] policy = "SCHEDULER_PRIORITY" -> [tasks |-> T, next |-> __scheduler_priority(T, FALSE)]
      [] policy = "SCHEDULER_CFS" -> [tasks |-> T, next |-> __scheduler_cfs(T, FALSE)]
      [] policy = "SCHEDULER_EDF" -> __scheduler_edf(T)
      [] policy = "SCHEDULER_RM" -> __scheduler_rm(T)
      [] policy = "SCHEDULER_AEDF" -> __scheduler_aedf(T)

\* The last NTasks entries of the sequence of returned tasks.
LastPicks(s) ==
    IF Len(s) <= NTasks THEN s ELSE SubSeq(s, Len(s) - NTasks + 1, Len(s))

\* scheduler_pick_next_task that moves runqueue.curr to the tail of the list.
scheduler_pick_next_task_requeues ==
    /\ ~panicked
    /\ curr # NONE
    /\ sop # "pick"
    /\ LET r == PolicyChoice(__update_task_statistics(tasks, curr)) IN
         /\ next' = r.next
         /\ panicked' = (r.next = NONE)
         /\ tasks' = IF r.next = NONE THEN r.tasks
                     ELSE [r.tasks EXCEPT ![r.next].exec_start = ticks]
         /\ picked' = IF r.next = NONE THEN picked
                      ELSE LastPicks(Append(picked, r.next))
    /\ queue' = Append(SelectSeq(queue, LAMBDA t : t # curr), curr)
    /\ sop' = "pick"
    /\ UNCHANGED <<curr, policy, ticks>>
    /\ UNCHANGED bvars

\* scheduler_pick_next_task that stamps the outgoing task instead of the
\* task it returns.
scheduler_pick_next_task_stamps_curr ==
    /\ ~panicked
    /\ curr # NONE
    /\ sop # "pick"
    /\ LET r == PolicyChoice(__update_task_statistics(tasks, curr)) IN
         /\ next' = r.next
         /\ panicked' = (r.next = NONE)
         /\ tasks' = IF r.next = NONE THEN r.tasks
                     ELSE [r.tasks EXCEPT ![curr].exec_start = ticks]
         /\ picked' = IF r.next = NONE THEN picked
                      ELSE LastPicks(Append(picked, r.next))
    /\ sop' = "pick"
    /\ UNCHANGED <<queue, curr, policy, ticks>>
    /\ UNCHANGED bvars

\* scheduler_pick_next_task: the statistics of runqueue.curr are updated,
\* the policy chooses, the choice is asserted not to be NULL and its
\* exec_start is set. The caller switches to the returned task before it
\* calls again.
scheduler_pick_next_task ==
    /\ ~panicked
    /\ curr # NONE
    /\ sop # "pick"
    /\ LET r == PolicyChoice(__update_task_statistics(tasks, curr)) IN
         /\ next' = r.next
         /\ panicked' = (r.next = NONE)
         /\ tasks' = IF r.next = NONE THEN r.tasks
                     ELSE [r.tasks EXCEPT ![r.next].exec_start = ticks]
         /\ picked' = IF r.next = NONE THEN picked
                      ELSE LastPicks(Append(picked, r.next))
    /\ sop' = "pick"
    /\ UNCHANGED <<queue, curr, policy, ticks>>
    /\ UNCHANGED bvars

\* The context switch to the task that was picked.
ContextSwitch ==
    /\ ~panicked
    /\ sop = "pick"
    /\ next # NONE
    /\ curr' = next
    /\ sop' = "switch"
    /\ UNCHANGED <<queue, tasks, policy, ticks, next, panicked, picked>>
    /\ UNCHANGED bvars

\* A new task of default priority is put at the tail of the runqueue,
\* RUNNING; when periodic, its first period of one tick starts now.
Enqueue ==
    /\ ~panicked
    /\ sop # "pick"
    /\ \E t \in Tasks : \E per \in BOOLEAN : \E ana \in BOOLEAN :
         /\ tasks[t].state = "NEW"
         /\ ~per => ~ana
         /\ queue' = Append(queue, t)
         /\ tasks' = [tasks EXCEPT ![t] =
                        [NewTask EXCEPT !.state = "TASK_RUNNING",
                                        !.exec_start = ticks,
                                        !.is_periodic = per,
                                        !.is_under_analysis = ana,
                                        !.period = IF per THEN 1 ELSE 0,
                                        !.deadline = IF per THEN ticks + 1 ELSE 0,
                                        !.next_period = IF per THEN ticks + 1 ELSE 0]]
    /\ sop' = "enqueue"
    /\ picked' = <<>>
    /\ UNCHANGED <<curr, policy, ticks, next, panicked>>
    /\ UNCHANGED bvars

\* A queued task blocks, is woken up, or exits.
SetState ==
    /\ ~panicked
    /\ sop # "pick"
    /\ \E t \in Tasks : \E st \in {"TASK_RUNNING", "TASK_INTERRUPTIBLE", "EXIT_ZOMBIE"} :
         /\ \/ tasks[t].state = "TASK_RUNNING" /\ st # "TASK_RUNNING"
            \/ tasks[t].state = "TASK_INTERRUPTIBLE" /\ st = "TASK_RUNNING"
         /\ tasks' = [tasks EXCEPT ![t].state = st]
    /\ sop' = "state"
    /\ picked' = <<>>
    /\ UNCHANGED <<queue, curr, policy, ticks, next, panicked>>
    /\ UNCHANGED bvars

\* The timer interrupt counts a tick.
Tick ==
    /\ ~panicked
    /\ sop # "pick"
    /\ ticks < MaxTicks
    /\ ticks' = ticks + 1
    /\ sop' = "tick"
    /\ UNCHANGED <<queue, curr, tasks, policy, next, panicked, picked>>
    /\ UNCHANGED bvars

\* The runqueue once the first task runs in the round-robin build: it is
\* queued, RUNNING and current.
InitSched ==
    /\ queue = <<1>>
    /\ curr = 1
    /\ tasks = [t \in Tasks |->
                  IF t = 1 THEN [NewTask EXCEPT !.state = "TASK_RUNNING"] ELSE NewTask]
    /\ policy = "SCHEDULER_RR"
    /\ ticks = 0
    /\ next = NONE
    /\ sop = "init"
    /\ panicked = FALSE
    /\ picked = <<>>

\* The task descriptors a runqueue of the six builds is drawn from: blocked
\* or RUNNING, of default or lowest priority, aperiodic, periodic under
\* analysis or periodic; a periodic task has a period of one tick that
\* starts at tick 0.
TaskProfiles ==
    {[NewTask EXCEPT !.state = st, !.prio = prio,
                     !.is_periodic = per, !.is_under_analysis = ana,
                     !.period = IF per THEN 1 ELSE 0,
                     !.deadline = IF per THEN 1 ELSE 0,
                     !.next_period = IF per THEN 1 ELSE 0] :
        st \in {"TASK_RUNNING", "TASK_INTERRUPTIBLE"}, prio \in {120, 139},
        per \in BOOLEAN, ana \in BOOLEAN}

\* A runqueue of PolicyTasks tasks in a kernel built with any one of the six
\* algorithms, at tick 0, with any of its tasks current.
InitPolicySched ==
    /\ queue = [i \in 1 .. PolicyTasks |-> i]
    /\ curr \in 1 .. PolicyTasks
    /\ tasks \in {T \in [Tasks -> TaskProfiles \cup {NewTask}] :
                    \A t \in Tasks :
                       /\ (t <= PolicyTasks) <=> (T[t] # NewTask)
                       /\ ~T[t].is_periodic => ~T[t].is_under_analysis}
    /\ policy \in Policies
    /\ ticks = 0
    /\ next = NONE
    /\ sop = "init"
    /\ panicked = FALSE
    /\ picked = <<>>

\* The task that was switched to runs for one time slice of one tick.
RunSlice ==
    /\ ~panicked
    /\ sop = "switch"
    /\ ticks < MaxSlices
    /\ ticks' = ticks + 1
    /\ sop' = "slice"
    /\ UNCHANGED <<queue, curr, tasks, policy, next, panicked, picked>>
    /\ UNCHANGED bvars

\* The scheduling point at the end of a time slice (and the first one).
PickAfterSlice ==
    /\ sop \in {"init", "slice"}
    /\ scheduler_pick_next_task

\* A runqueue of NTasks aperiodic tasks of one and the same priority (nice
\* -20, 0 or 19), blocked or RUNNING, none of which has run yet, in the
\* fair build at tick 0, with any of its tasks current.
InitCfsSched ==
    /\ queue = [i \in 1 .. NTasks |-> i]
    /\ curr \in Tasks
    /\ \E prio \in {100, 120, 139} :
         tasks \in [Tasks -> {[NewTask EXCEPT !.state = st, !.prio = prio] :
                                st \in {"TASK_RUNNING", "TASK_INTERRUPTIBLE"}}]
    /\ policy = "SCHEDULER_CFS"
    /\ ticks = 0
    /\ next = NONE
    /\ sop = "init"
    /\ panicked = FALSE
    /\ picked = <<>>

\* The activation patterns of the periodic tasks: period, absolute deadline
\* and start of the next period, the deadline no later than the period's end.
PeriodicTimings ==
    {[period |-> 1, deadline |-> 1, next_period |-> 1],
     [period |-> 2, deadline |-> 2, next_period |-> 2],
     [period |-> 2, deadline |-> 1, next_period |-> 2]}

\* The task descriptors a runqueue of the periodic builds is drawn from:
\* blocked or RUNNING; aperiodic, periodic under analysis, or periodic with
\* any activation pattern and having executed in its period or not.
PeriodicProfiles ==
    {[NewTask EXCEPT !.state = st] : st \in {"TASK_RUNNING", "TASK_INTERRUPTIBLE"}}
    \cup {[NewTask EXCEPT !.state = st, !.is_periodic = TRUE, !.is_under_analysis = TRUE,
                          !.executed = ex,
                          !.period = 1, !.deadline = 1, !.next_period = 1] :
             st \in {"TASK_RUNNING", "TASK_INTERRUPTIBLE"}, ex \in BOOLEAN}
    \cup {[NewTask EXCEPT !.state = st, !.is_periodic = TRUE, !.executed = ex,
                          !.period = tm.period, !.deadline = tm.deadline,
                          !.next_period = tm.next_period] :
             st \in {"TASK_RUNNING", "TASK_INTERRUPTIBLE"}, ex \in BOOLEAN,
             tm \in PeriodicTimings}

\* A runqueue of PolicyTasks tasks in a kernel built with one of the three
\* periodic algorithms, at tick 0 or at tick StartTicks, with any of its
\* tasks current.
InitPeriodicSched ==
    /\ queue = [i \in 1 .. PolicyTasks |-> i]
    /\ curr \in 1 .. PolicyTasks
    /\ tasks \in {T \in [Tasks -> PeriodicProfiles \cup {NewTask}] :
                    \A t \in Tasks : (t <= PolicyTasks) <=> (T[t] # NewTask)}
    /\ policy \in {"SCHEDULER_EDF", "SCHEDULER_RM", "SCHEDULER_AEDF"}
    /\ ticks \in {0, StartTicks}
    /\ next = NONE
    /\ sop = "init"
    /\ panicked = FALSE
    /\ picked = <<>>

\* The task that was switched to runs for one time slice of one tick, in
\* which a periodic task that has not yet executed in its period completes
\* its job (of one tick) and marks itself executed.
RunJob ==
    /\ ~panicked
    /\ sop = "switch"
    /\ ticks < MaxSlices
    /\ ticks' = ticks + 1
    /\ tasks' = IF __is_periodic_task(curr) /\ ~tasks[curr].executed
                THEN [tasks EXCEPT ![curr].executed = TRUE]
                ELSE tasks
    /\ sop' = "slice"
    /\ UNCHANGED <<queue, curr, policy, next, panicked, picked>>
    /\ UNCHANGED bvars

\* The tasks of a feasible set: RUNNING, aperiodic or periodic with a job of
\* one tick per period, a period of NTasks or NTasks + 1 ticks, the first
\* period starting at tick 0 and the deadline at the end of the period. The
\* jobs of NTasks such tasks use at most the whole processor.
FeasibleProfiles ==
    {[NewTask EXCEPT !.state = "TASK_RUNNING"]} \cup
    {[NewTask EXCEPT !.state = "TASK_RUNNING", !.is_periodic = TRUE,
                     !.period = p, !.deadline = p, !.next_period = p] :
        p \in {NTasks, NTasks + 1}}

\* A runqueue holding a feasible task set in the earliest-deadline-first
\* build at tick 0, with any of its tasks current.
InitEdfSched ==
    /\ queue = [i \in 1 .. NTasks |-> i]
    /\ curr \in Tasks
    /\ tasks \in [Tasks -> FeasibleProfiles]
    /\ policy = "SCHEDULER_EDF"
    /\ ticks = 0
    /\ next = NONE
    /\ sop = "init"
    /\ panicked = FALSE
    /\ picked = <<>>

-----------------------------------------------------------------------------
(* Specifications                                                          *)

Init == InitZone(NBlocks) /\ InitSched

Next == AllocPages \/ FreeHeld

Spec == Init /\ [][Next]_vars

InitMisuse == InitZone(MisuseBlocks) /\ InitSched

NextMisuse == AllocPages \/ FreePages

SpecMisuse == InitMisuse /\ [][NextMisuse]_vars

InitCache == InitZone(CacheBlocks) /\ InitSched

NextCache == AllocBesideCache \/ FreeHeld \/ AllocPageCached \/ FreePageCached

SpecCache == InitCache /\ [][NextCache]_vars

NextDrain == AllocBesideCache \/ FreeHeld \/ DrainPageCached \/ FreeLastCached

SpecDrain == InitCache /\ [][NextDrain]_vars

\* A zone too small to refill the cache.
NextExhaust == AllocPages \/ FreeHeld \/ AllocPageCached

SpecExhaust == Init /\ [][NextExhaust]_vars

NextSched == scheduler_pick_next_task \/ ContextSwitch \/ Enqueue \/ SetState

SpecSched == Init /\ [][NextSched]_vars

InitPolicy == InitZone(NBlocks) /\ InitPolicySched

NextPolicy == scheduler_pick_next_task \/ ContextSwitch \/ Tick

SpecPolicy == InitPolicy /\ [][NextPolicy]_vars

InitBoot == BootZone /\ InitSched

NextBoot == BuddySystemInit \/ AllocAfterInit \/ FreeHeld

SpecBoot == InitBoot /\ [][NextBoot]_vars

NextIrq == AllocSearch \/ AllocEntry \/ AllocRemove \/ AllocSplit \/ IrqAlloc \/ FreeWhenIdle

SpecIrq == Init /\ [][NextIrq]_vars

InitCfs == InitZone(NBlocks) /\ InitCfsSched

NextCfs == PickAfterSlice \/ ContextSwitch \/ RunSlice

SpecCfs == InitCfs /\ [][NextCfs]_vars

InitEdf == InitZone(NBlocks) /\ InitEdfSched

NextEdf == PickAfterSlice \/ ContextSwitch \/ RunJob

SpecEdf == InitEdf /\ [][NextEdf]_vars

InitPeriodic == InitZone(NBlocks) /\ InitPeriodicSched

SpecPeriodic == InitPeriodic /\ [][NextPolicy]_vars

-----------------------------------------------------------------------------
(* Properties                                                              *)

\* The entries of the buddy free lists: order, position, page index.
FreeEntries ==
    UNION {{[order |-> k, pos |-> i, idx |-> free_area[k].free_list[i]] :
              i \in 1 .. Len(free_area[k].free_list)} : k \in Orders}

PagesOf(idx, order) == idx .. (idx + Pow2(order) - 1)

\* The number of times descriptor i is linked on a buddy free list.
TimesOnFreeLists(i) == Cardinality({e \in FreeEntries : e.idx = i})

\* The number of times descriptor i is linked on the cache list.
TimesOnCache(i) ==
    Cardinality({j \in 1 .. Len(free_pages_cache_list) : free_pages_cache_list[j] = i})

\* nr_free[k] * 2^k summed over the orders from k up.
RECURSIVE NrFreePagesFrom(_)
NrFreePagesFrom(k) ==
    IF k >= MAX_BUDDYSYSTEM_GFP_ORDER THEN 0
    ELSE free_area[k].nr_free * Pow2(k) + NrFreePagesFrom(k + 1)

\* The pages of the blocks in the set H.
RECURSIVE PagesHeld(_)
PagesHeld(H) ==
    IF H = {} THEN 0
    ELSE LET h == CHOOSE x \in H : TRUE IN Pow2(h.order) + PagesHeld(H \ {h})

AllocatedPages == PagesHeld(held) + Cardinality(cheld)

\* C1: between calls, the pages counted free (nr_free[k] * 2^k over all
\* orders), the pages counted in the cache (cache_size) and the pages of the
\* blocks callers hold add up to pages_total.
C1_Conservation ==
    NrFreePagesFrom(0) + free_pages_cache_size + AllocatedPages = total_pages

\* C2: the page ranges of the blocks callers hold and of the blocks on the
\* free lists are pairwise disjoint.
C2_Disjoint ==
    /\ \A a, b \in FreeEntries :
         a # b => PagesOf(a.idx, a.order) \cap PagesOf(b.idx, b.order) = {}
    /\ \A a, b \in held :
         a # b => PagesOf(a.idx, a.order) \cap PagesOf(b.idx, b.order) = {}
    /\ \A a \in FreeEntries : \A b \in held :
         PagesOf(a.idx, a.order) \cap PagesOf(b.idx, b.order) = {}

\* A second block was returned beside the free halves of a split block,
\* after an earlier block had been freed and merged.
C2_Witness ==
    /\ ret.op = "alloc" /\ ret.page # NONE
    /\ Cardinality(held) >= 2
    /\ \E e \in FreeEntries : e.order < MAX_BUDDYSYSTEM_GFP_ORDER - 1
    /\ \E i \in DOMAIN pages : ~pages[i].root /\ pages[i].order # Uninit

\* C4: every block bb_alloc_pages(order) returned has a page index that is
\* a multiple of 2^order.
C4_Alignment ==
    /\ \A h \in held : h.idx % Pow2(h.order) = 0
    /\ (ret.op = "alloc" /\ ret.page # NONE) => ret.page % Pow2(ret.order) = 0

\* A block of order 1 or more was returned at a page index other than 0.
C4_Witness ==
    ret.op = "alloc" /\ ret.page # NONE /\ ret.order >= 1 /\ ret.page > 0

\* C5: the block bb_alloc_pages(order) returned records the requested
\* order, has ROOT set and FREE clear, and is on no free list.
C5_OrderRoundTrip ==
    (ret.op = "alloc" /\ ret.page # NONE) =>
        /\ pages[ret.page].order = ret.order
        /\ pages[ret.page].root
        /\ ~pages[ret.page].free
        /\ TimesOnFreeLists(ret.page) = 0

\* A block was returned that had to be split off a larger one.
C5_Witness ==
    /\ ret.op = "alloc" /\ ret.page # NONE
    /\ ret.order < MAX_BUDDYSYSTEM_GFP_ORDER - 1
    /\ free_area[ret.order].free_list # <<>>
    /\ Head(free_area[ret.order].free_list) = ret.page + Pow2(ret.order)

\* C3: whenever the runqueue holds a RUNNING task, scheduler_pick_next_task
\* returns a task, and that task is RUNNING.
C3_PickReturnsRunning ==
    (sop = "pick" /\ \E i \in 1 .. Len(queue) : tasks[queue[i]].state = "TASK_RUNNING") =>
        /\ ~panicked
        /\ next # NONE
        /\ tasks[next].state = "TASK_RUNNING"

\* C6: bb_alloc_pages(order) returns NONE exactly when order >= MAX_ORDER
\* or every free list from order up is empty, and such a call changes no
\* descriptor, free list or nr_free counter.
C6_AllocFailure ==
    [][ret'.op = "alloc" =>
          /\ (ret'.page = NONE) <=>
                \/ ret'.order >= MAX_BUDDYSYSTEM_GFP_ORDER
                \/ \A k \in Orders : k >= ret'.order => free_area[k].free_list = <<>>
          /\ (ret'.page = NONE) => UNCHANGED <<pages, free_area>>]_vars

\* An order-0 request failed on an exhausted zone.
C6_Witness ==
    /\ ret.op = "alloc" /\ ret.page = NONE /\ ret.order = 0
    /\ \A k \in Orders : free_area[k].nr_free = 0

\* C7: once every allocated block has been freed, the last free list holds
\* its initial number of blocks again and every other nr_free is 0.
C7_CoalescingComplete ==
    held = {} =>
        \A k \in Orders :
            free_area[k].nr_free =
                IF k = MAX_BUDDYSYSTEM_GFP_ORDER - 1
                THEN total_pages \div Pow2(MAX_BUDDYSYSTEM_GFP_ORDER - 1)
                ELSE 0

\* The last held block was freed after blocks had been split and merged.
C7_Witness ==
    /\ held = {}
    /\ ret.op = "free" /\ ret.valid
    /\ \E i \in DOMAIN pages : ~pages[i].root /\ pages[i].order = 0
    /\ \E i \in DOMAIN pages : i % 2 = 1 /\ pages[i].order = 0

\* C8: bb_free_pages of a descriptor that is FREE, that is not ROOT, or
\* whose index is pages_total or more changes no free list, nr_free
\* counter, flag or order field.
C8_FreeRejected ==
    [][(/\ ret'.op = "free"
        /\ \/ ret'.page >= total_pages
           \/ /\ ret'.page \in DOMAIN pages
              /\ (pages[ret'.page].free \/ ~pages[ret'.page].root))
       => UNCHANGED <<pages, free_area>>]_vars

\* A page that was the root of a one-page block and has since been merged
\* into a larger free block was passed to bb_free_pages, with no effect.
C8_Witness ==
    /\ ret.op = "free" /\ ~ret.valid
    /\ ret.page \in DOMAIN pages
    /\ pages[ret.page].order = 0
    /\ pages[ret.page].free /\ ~pages[ret.page].root

\* C9: a block linked on free_area[k] at index i has i a multiple of 2^k,
\* FREE and ROOT set and order k at i, and FREE set and ROOT clear on the
\* 2^k - 1 descriptors after it.
C9_FreeBlockShape ==
    \A e \in FreeEntries :
        /\ e.idx % Pow2(e.order) = 0
        /\ pages[e.idx].free /\ pages[e.idx].root
        /\ pages[e.idx].order = e.order
        /\ \A j \in PagesOf(e.idx, e.order) \ {e.idx} :
             pages[j].free /\ ~pages[j].root

\* A block of two pages or more is on a free list after a merge.
C9_Witness ==
    /\ ret.op = "free" /\ ret.valid
    /\ \E e \in FreeEntries :
         /\ e.order = 1
         /\ pages[e.idx + 1].order = 0

-----------------------------------------------------------------------------
(* Round-robin                                                             *)

\* The queued tasks that are RUNNING.
RunningQueued ==
    {queue[i] : i \in {j \in 1 .. Len(queue) : tasks[queue[j]].state = "TASK_RUNNING"}}

\* The queued RUNNING tasks other than runqueue.curr.
OtherRunning == RunningQueued \ {curr}

\* The number of list steps from curr's node forward to the node of task t,
\* going from the last task to the first one past the sentinel.
StepsAfterCurr(t) ==
    (IndexOf(queue, t) - IndexOf(queue, curr) + Len(queue)) % Len(queue)

\* C11: under round-robin, when a task other than runqueue.curr is RUNNING,
\* scheduler_pick_next_task returns the RUNNING task that comes first after
\* curr in queue order, the order wrapping from the last task to the first.
C11_RoundRobinOrder ==
    [][(sop' = "pick" /\ OtherRunning # {}) =>
          /\ next' \in OtherRunning
          /\ \A t \in OtherRunning : StepsAfterCurr(next') <= StepsAfterCurr(t)]_vars

\* With the runqueue [1, 2, 3] all RUNNING and curr = 1 at first, three
\* calls in a row, curr advanced to each returned task, returned 2, 3, 1.
C11_Witness ==
    /\ queue = <<1, 2, 3>>
    /\ RunningQueued = {1, 2, 3}
    /\ sop = "pick"
    /\ picked = <<2, 3, 1>>

\* C12: under round-robin, when no queued task other than runqueue.curr is
\* eligible, scheduler_pick_next_task returns runqueue.curr, however many
\* tasks are queued.
C12_ReturnsCurr ==
    (sop = "pick" /\ OtherRunning = {}) => next = curr

\* C13: with N >= 2 RUNNING tasks whose states do not change and curr set
\* to each returned task, any N calls of scheduler_pick_next_task in a row
\* return every RUNNING task.
C13_NoStarvation ==
    LET N == Cardinality(RunningQueued) IN
    (N >= 2 /\ Len(picked) >= N) =>
        {picked[i] : i \in (Len(picked) - N + 1) .. Len(picked)} = RunningQueued

\* Three calls in a row were made on a queue of three tasks of which one is
\* not RUNNING, so that the window of two calls has moved once.
C13_Witness ==
    /\ Len(queue) = 3
    /\ Cardinality(RunningQueued) = 2
    /\ Len(picked) = 3

-----------------------------------------------------------------------------
(* Static priority and accounting                                          *)

\* C14: under static priority, scheduler_pick_next_task returns a RUNNING
\* task whose prio is the least among the RUNNING tasks, the first of them
\* in queue order when several have that prio; a first queue element that
\* is not RUNNING is never returned.
C14_StaticPriority ==
    (policy = "SCHEDULER_PRIORITY" /\ sop = "pick") =>
        /\ RunningQueued # {} =>
              /\ next \in RunningQueued
              /\ \A t \in RunningQueued :
                    /\ tasks[next].prio <= tasks[t].prio
                    /\ tasks[t].prio = tasks[next].prio =>
                          IndexOf(queue, next) <= IndexOf(queue, t)
        /\ tasks[Head(queue)].state # "TASK_RUNNING" => next # Head(queue)

\* The builds in which the body of __update_task_statistics is compiled.
StatisticsBuilds ==
    {"SCHEDULER_CFS", "SCHEDULER_EDF", "SCHEDULER_RM", "SCHEDULER_AEDF"}

\* x is d * NICE_0_LOAD / weight cut to its integer part.
IsScaled(x, d, weight) ==
    x * weight <= d * NICE_0_LOAD /\ d * NICE_0_LOAD < (x + 1) * weight

\* C15 as stated: on every call of scheduler_pick_next_task, in any of the
\* six builds, the outgoing task runqueue.curr gets exec_runtime = now -
\* exec_start and its sum_exec_runtime grows by that delta.
C15_Original ==
    [][sop' = "pick" =>
          LET d == ticks - tasks[curr].exec_start IN
          /\ tasks'[curr].exec_runtime = d
          /\ tasks'[curr].sum_exec_runtime = tasks[curr].sum_exec_runtime + d]_vars

\* C15 amended: in the CFS, EDF, RM and AEDF builds a call of
\* scheduler_pick_next_task adds delta = now - exec_start to the
\* sum_exec_runtime of the outgoing task and leaves its exec_runtime at
\* delta when the task is periodic or of nice-0 weight, at delta weighted
\* by NICE_0_LOAD / weight otherwise; in the round-robin and the static
\* priority builds the call leaves exec_runtime and sum_exec_runtime of
\* every task as they were.
C15_Amended ==
    [][sop' = "pick" =>
          LET d == ticks - tasks[curr].exec_start
              w == GET_WEIGHT(tasks[curr].prio)
          IN IF policy \in StatisticsBuilds
             THEN /\ tasks'[curr].sum_exec_runtime = tasks[curr].sum_exec_runtime + d
                  /\ IF tasks[curr].is_periodic \/ w = NICE_0_LOAD
                     THEN tasks'[curr].exec_runtime = d
                     ELSE IsScaled(tasks'[curr].exec_runtime, d, w)
             ELSE \A t \in Tasks :
                    /\ tasks'[t].exec_runtime = tasks[t].exec_runtime
                    /\ tasks'[t].sum_exec_runtime = tasks[t].sum_exec_runtime]_vars

\* In the EDF build a task that had run for a tick or more since it was
\* picked was accounted as the outgoing task.
C15_Witness ==
    /\ sop = "pick"
    /\ policy = "SCHEDULER_EDF"
    /\ tasks[curr].exec_start < ticks
    /\ tasks[curr].exec_runtime >= 1
    /\ tasks[curr].sum_exec_runtime >= 1

\* The change of vruntime and sum_exec_runtime C16 states for the outgoing
\* task of a call.
VruntimeRule ==
    LET d == ticks - tasks[curr].exec_start
        w == GET_WEIGHT(tasks[curr].prio)
        dv == tasks'[curr].vruntime - tasks[curr].vruntime
    IN /\ tasks'[curr].sum_exec_runtime = tasks[curr].sum_exec_runtime + d
       /\ (~tasks[curr].is_periodic /\ w = NICE_0_LOAD) => dv = d
       /\ (~tasks[curr].is_periodic /\ w # NICE_0_LOAD) => IsScaled(dv, d, w)
       /\ tasks[curr].is_periodic => dv = 0

\* C16 as stated: the accounting of the outgoing task adds now - exec_start
\* to the vruntime of a task that is not periodic and of nice-0 weight, that
\* delta times NICE_0_LOAD / weight for another weight, nothing for a
\* periodic task, and always the unscaled delta to sum_exec_runtime.
C16_Original ==
    [][sop' = "pick" => VruntimeRule]_vars

\* C16 amended: the same, in the builds that compile the accounting (CFS,
\* EDF, RM, AEDF), the weighted delta being cut to its integer part.
C16_Amended ==
    [][(sop' = "pick" /\ policy \in StatisticsBuilds) => VruntimeRule]_vars

\* In the CFS build a task of the lowest priority that ran one tick was
\* accounted: its vruntime grew by 68 = 1024 / 15 cut, its sum_exec_runtime
\* by 1.
C16_Witness ==
    /\ sop = "pick"
    /\ policy = "SCHEDULER_CFS"
    /\ ~tasks[curr].is_periodic
    /\ tasks[curr].prio = 139
    /\ tasks[curr].vruntime = 68
    /\ tasks[curr].sum_exec_runtime = 1

-----------------------------------------------------------------------------
(* The page cache                                                          *)

\* nr_free[k] * 2^k summed over the orders from k up, in the free areas fa.
RECURSIVE NrFreePagesIn(_, _)
NrFreePagesIn(fa, k) ==
    IF k >= MAX_BUDDYSYSTEM_GFP_ORDER THEN 0
    ELSE fa[k].nr_free * Pow2(k) + NrFreePagesIn(fa, k + 1)

\* C17: cache_size is the number of descriptors linked on the cache list;
\* after the first bb_alloc_page_cached on a fresh instance, which leaves 39
\* pages in the cache, cache_size is 39.
C17_CacheSizeIsLength ==
    /\ free_pages_cache_size = Len(free_pages_cache_list)
    /\ (ret.op = "cached_alloc" /\ cheld = {ret.page}
          /\ Len(free_pages_cache_list) = MID_WATERMARK_LEVEL - 1)
         => free_pages_cache_size = MID_WATERMARK_LEVEL - 1

\* C18: bb_free_page_cached pushes the page onto the cache, which raises
\* cache_size by one; when the raised cache_size exceeds HIGH, cache_size -
\* MID pages go back to the buddy, whose free space grows by as many pages,
\* and cache_size becomes MID.
C18_CachedFreeDrains ==
    [][ret'.op = "cached_free" =>
          LET n == free_pages_cache_size + 1 IN
          IF n > HIGH_WATERMARK_LEVEL
          THEN /\ free_pages_cache_size' = MID_WATERMARK_LEVEL
               /\ NrFreePagesIn(free_area', 0) =
                     NrFreePagesIn(free_area, 0) + (n - MID_WATERMARK_LEVEL)
          ELSE /\ free_pages_cache_size' = n
               /\ free_pages_cache_list' = <<ret'.page>> \o free_pages_cache_list
               /\ free_area' = free_area]_vars

\* C19: while the buddy has a free page, every bb_alloc_page_cached returns
\* a descriptor of the instance that is an order-0 block, not FREE, on no
\* buddy free list and held by no caller.
C19_CachedAllocReal ==
    [][(ret'.op = "cached_alloc" /\ NrFreePagesFrom(0) >= 1) =>
          /\ ~crashed'
          /\ ret'.page \in 0 .. (total_pages - 1)
          /\ ~pages'[ret'.page].free
          /\ pages'[ret'.page].root
          /\ pages'[ret'.page].order = 0
          /\ \A k \in Orders : \A i \in 1 .. Len(free_area'[k].free_list) :
                free_area'[k].free_list[i] # ret'.page
          /\ ret'.page \notin cheld
          /\ \A h \in held : ret'.page \notin PagesOf(h.idx, h.order)]_vars

-----------------------------------------------------------------------------
(* Splitting                                                               *)

\* The lowest order from `order` up that has a free block, or
\* MAX_BUDDYSYSTEM_GFP_ORDER when there is none.
LowestFreeOrder(order) ==
    LET S == {k \in Orders : k >= order /\ free_area[k].free_list # <<>>}
    IN IF S = {} THEN MAX_BUDDYSYSTEM_GFP_ORDER
       ELSE CHOOSE k \in S : \A m \in S : k <= m

\* C21: when bb_alloc_pages(order) takes a free block of order k > order at
\* page index i, it returns descriptor i; for each j in [order, k) exactly
\* one new block, at index i + 2^j, is FREE and ROOT with order j on
\* free_area[j] and nr_free[j] went up by one, and nr_free[k] went down by
\* one.
C21_SplitRecords ==
    [][(ret'.op = "alloc" /\ ret'.page # NONE /\ LowestFreeOrder(ret'.order) > ret'.order) =>
          LET k == LowestFreeOrder(ret'.order)
              i == Head(free_area[k].free_list)
          IN /\ ret'.page = i
             /\ free_area'[k].nr_free = free_area[k].nr_free - 1
             /\ free_area'[k].free_list = Tail(free_area[k].free_list)
             /\ \A j \in ret'.order .. (k - 1) :
                   /\ free_area'[j].free_list = <<i + Pow2(j)>> \o free_area[j].free_list
                   /\ free_area'[j].nr_free = free_area[j].nr_free + 1
                   /\ pages'[i + Pow2(j)].free
                   /\ pages'[i + Pow2(j)].root
                   /\ pages'[i + Pow2(j)].order = j
             /\ \A j \in Orders : (j < ret'.order \/ j > k) =>
                   free_area'[j] = free_area[j]]_vars

\* On a fresh zone an order-0 request split a block of the highest order:
\* one free block at every lower order, one block fewer at the highest.
C21_Witness ==
    /\ ret.op = "alloc" /\ ret.order = 0 /\ ret.page = 0
    /\ \A j \in 0 .. (MAX_BUDDYSYSTEM_GFP_ORDER - 2) :
          /\ free_area[j].nr_free = 1
          /\ free_area[j].free_list = <<Pow2(j)>>
    /\ free_area[MAX_BUDDYSYSTEM_GFP_ORDER - 1].nr_free = NBlocks - 1

\* The free blocks (index and order) of the free lists fa.
FreeBlocksIn(fa) ==
    UNION {{[idx |-> fa[k].free_list[i], order |-> k] : i \in 1 .. Len(fa[k].free_list)} :
             k \in Orders}

\* C22: a successful bb_alloc_pages(order) immediately followed by
\* bb_free_pages of the block it returned leaves every nr_free[k] and the
\* set of free blocks (index and order) as they were before the allocation.
C22_RoundTrip ==
    [][(ret'.op = "alloc" /\ ret'.page # NONE) =>
          \A u \in Orders :
             LET after == bb_free_pages(Inst', ret'.page, u) IN
             /\ \A k \in Orders : after.free_area[k].nr_free = free_area[k].nr_free
             /\ FreeBlocksIn(after.free_area) = FreeBlocksIn(free_area)]_vars

\* A block was split off a larger one while another block was held: freeing
\* it at once has halves to merge again.
C22_Witness ==
    /\ ret.op = "alloc" /\ ret.page # NONE
    /\ ret.order < MAX_BUDDYSYSTEM_GFP_ORDER - 1
    /\ Cardinality(held) >= 2
    /\ \E h \in held : h.idx = ret.page
    /\ \E e \in FreeBlocksIn(free_area) :
          e.order = ret.order /\ e.idx = __get_buddy_at_index(ret.page, ret.order)

-----------------------------------------------------------------------------
(* Periodic policies                                                       *)

\* The queued tasks that are RUNNING and periodic (not under analysis).
RunningPeriodic ==
    {queue[i] : i \in {j \in 1 .. Len(queue) :
                         tasks[queue[j]].state = "TASK_RUNNING" /\ __is_periodic_task(queue[j])}}

\* C23: in the aedf build, when no queued task is RUNNING and periodic,
\* scheduler_pick_next_task returns the task round-robin with
\* skip_periodic = false returns, not an arbitrary element of the list.
C23_AedfFallsToRoundRobin ==
    (sop = "pick" /\ policy = "SCHEDULER_AEDF" /\ RunningPeriodic = {}) =>
        next = __scheduler_rr(FALSE)

\* C24: in the aedf build, when some queued task is RUNNING and periodic,
\* scheduler_pick_next_task returns a RUNNING periodic task whose deadline
\* is the smallest among them; a task whose deadline has passed stays
\* eligible.
C24_AedfEarliestDeadline ==
    (sop = "pick" /\ policy = "SCHEDULER_AEDF" /\ RunningPeriodic # {}) =>
        /\ next \in RunningPeriodic
        /\ \A t \in RunningPeriodic : tasks[next].deadline <= tasks[t].deadline

\* The task returned is not the head of the queue, its deadline has passed
\* and another RUNNING periodic task has a later deadline.
C24_Witness ==
    /\ sop = "pick" /\ policy = "SCHEDULER_AEDF"
    /\ next \in RunningPeriodic
    /\ next # Head(queue)
    /\ tasks[next].deadline < ticks
    /\ \E t \in RunningPeriodic : tasks[t].deadline > tasks[next].deadline

\* Task t is queued, RUNNING, periodic, has executed in its period, and its
\* next period has started.
RolloverDue(t) ==
    /\ t \in RunningPeriodic
    /\ tasks[t].executed
    /\ tasks[t].next_period <= ticks

NotExecuted == {t \in RunningPeriodic : ~tasks[t].executed}

\* C26: in the edf build scheduler_pick_next_task returns the RUNNING
\* periodic task of smallest deadline among those that have not executed in
\* their period, a task re-activated by that call included, and falls
\* through to round-robin only when there is none.
C26_EdfEarliestNotExecuted ==
    (sop = "pick" /\ policy = "SCHEDULER_EDF") =>
        IF NotExecuted # {}
        THEN /\ next \in NotExecuted
             /\ \A t \in NotExecuted : tasks[next].deadline <= tasks[t].deadline
        ELSE next = __scheduler_rr(FALSE)

\* Every queued periodic task has its deadline at the start of its next
\* period.
AlignedKeys ==
    \A i \in 1 .. Len(queue) :
       tasks[queue[i]].is_periodic => tasks[queue[i]].deadline = tasks[queue[i]].next_period

\* What scheduler_pick_next_task leaves in the task table when the policy
\* gave r.
AfterChoice(r) ==
    IF r.next = NONE THEN r.tasks ELSE [r.tasks EXCEPT ![r.next].exec_start = ticks]

-----------------------------------------------------------------------------
(* Fair policy                                                             *)

\* The queued tasks that are RUNNING.
RunningTasks ==
    {queue[i] : i \in {j \in 1 .. Len(queue) : tasks[queue[j]].state = "TASK_RUNNING"}}

\* C28: in the fair build, with aperiodic tasks of equal weight each of
\* which runs one slice (one tick) when selected, after any number of
\* decisions the sum_exec_runtime of any two RUNNING tasks differ by at most
\* one slice, and no RUNNING task has a smaller vruntime than the task
\* selected.
C28_CfsFairness ==
    (sop = "pick" /\ policy = "SCHEDULER_CFS") =>
        /\ \A a, b \in RunningTasks :
              tasks[a].sum_exec_runtime - tasks[b].sum_exec_runtime <= 1
        /\ \A t \in RunningTasks : tasks[next].vruntime <= tasks[t].vruntime

-----------------------------------------------------------------------------
(* Initialisation                                                          *)

\* C30: buddy_system_init succeeds exactly when pages_count is positive and
\* a multiple of the size of a max-order block; on success the last free
\* list holds pages_count / 2^(MAX_ORDER-1) blocks at consecutive aligned
\* indices, every lower order is empty, every descriptor is FREE and only
\* the block heads are ROOT; a region with a tail residue is rejected.
C30_InitResult ==
    (ret.op = "init" /\ "count" \in DOMAIN ret) =>
       LET max_order  == MAX_BUDDYSYSTEM_GFP_ORDER - 1
           block_size == Pow2(max_order)
       IN /\ ret.valid <=> (ret.count > 0 /\ ret.count % block_size = 0)
          /\ ret.valid =>
                /\ free_area[max_order].nr_free = ret.count \div block_size
                /\ Len(free_area[max_order].free_list) = ret.count \div block_size
                /\ \A j \in 1 .. Len(free_area[max_order].free_list) :
                      free_area[max_order].free_list[j] = (j - 1) * block_size
                /\ \A k \in Orders : k < max_order =>
                      free_area[k].nr_free = 0 /\ free_area[k].free_list = <<>>
                /\ DOMAIN pages = 0 .. (ret.count - 1)
                /\ \A i \in DOMAIN pages :
                      pages[i].free /\ (pages[i].root <=> (i % block_size = 0))

\* A region of two max-order blocks was initialised.
C30_Witness ==
    /\ ret.op = "init" /\ "count" \in DOMAIN ret
    /\ ret.valid
    /\ ret.count = 2 * Pow2(MAX_BUDDYSYSTEM_GFP_ORDER - 1)
    /\ free_area[MAX_BUDDYSYSTEM_GFP_ORDER - 1].nr_free = 2

-----------------------------------------------------------------------------
(* Interrupts                                                              *)

\* No held block, nor any page of it, is the head of a free block.
NoneAllocatedAndFree ==
    \A h \in held : \A e \in FreeEntries :
       PagesOf(h.idx, h.order) \cap PagesOf(e.idx, e.order) = {}

\* nr_free of every order is the length of its free list.
NrFreeMatchesLists ==
    \A k \in Orders : free_area[k].nr_free = Len(free_area[k].free_list)

\* C29: a public operation of the allocator runs with interrupts masked
\* from its entry to its exit, so that no allocator call of an interrupt
\* handler comes between its steps: whenever no call is in progress no
\* block is both allocated and on a free list and nr_free matches the free
\* lists.
C29_MaskedOperations ==
    /\ inflight # Idle => ~irq_enabled
    /\ inflight = Idle => (NoneAllocatedAndFree /\ NrFreeMatchesLists)

-----------------------------------------------------------------------------
(* Frame of the dispatcher                                                 *)

\* C31: under every policy scheduler_pick_next_task leaves the state field
\* of every task and the membership and the order of the runqueue as they
\* are.
C31_PickFrame ==
    [][sop' = "pick" =>
          /\ queue' = queue
          /\ \A t \in Tasks : tasks'[t].state = tasks[t].state]_vars

\* A pick passed over a queued task that is not RUNNING and returned a
\* task other than the current one.
C31_Witness ==
    /\ sop = "pick" /\ next # NONE /\ next # curr
    /\ tasks[next].state = "TASK_RUNNING"
    /\ \E i \in 1 .. Len(queue) : tasks[queue[i]].state # "TASK_RUNNING"

-----------------------------------------------------------------------------
(* Weighting                                                               *)

\* C32: when the outgoing task is aperiodic, has nice -20 (static priority
\* 100, the largest weight) and has run for a tick or more, the accounting
\* of scheduler_pick_next_task adds more than zero to its vruntime.
C32_VruntimeGrows ==
    [][(/\ sop' = "pick" /\ policy \in StatisticsBuilds
        /\ ~tasks[curr].is_periodic /\ tasks[curr].prio = 100
        /\ ticks - tasks[curr].exec_start >= 1) =>
          tasks'[curr].vruntime > tasks[curr].vruntime]_vars

-----------------------------------------------------------------------------
(* Time stamp of the selected task                                         *)

\* C33: when scheduler_pick_next_task returns a task, the exec_start of
\* that task is the tick of the call, and the call changes the exec_start
\* of no other task.
C33_ExecStart ==
    [][sop' = "pick" =>
         \A t \in Tasks :
            tasks'[t].exec_start =
               IF t = next' THEN ticks ELSE tasks[t].exec_start]_vars

\* A task other than the outgoing one was returned at a later tick than
\* its last stamp, while the outgoing task keeps an older stamp.
C33_Witness ==
    /\ sop = "pick" /\ next # NONE /\ next # curr
    /\ ticks > 0
    /\ tasks[next].exec_start = ticks
    /\ tasks[curr].exec_start < ticks

-----------------------------------------------------------------------------
(* Deadlines under earliest-deadline-first                                 *)

\* C34: with a feasible periodic task set scheduled by the
\* earliest-deadline-first build, the deadline of the periodic task
\* selected by scheduler_pick_next_task is never in the past.
C34_EdfSafety ==
    (sop = "pick" /\ policy = "SCHEDULER_EDF" /\ next # NONE
       /\ __is_periodic_task(next)) =>
        tasks[next].deadline >= ticks

-----------------------------------------------------------------------------
(* Choice of the block                                                     *)

\* C35: a bb_alloc_pages(order) call made while some free list from order
\* up is not empty returns the head of the lowest such list, of order k,
\* and takes it off that list; the lists and counters of the orders above k
\* and below order are left as they were.
C35_LowestOrderHead ==
    [][(ret'.op = "alloc" /\ ret'.valid
          /\ LowestFreeOrder(ret'.order) < MAX_BUDDYSYSTEM_GFP_ORDER) =>
          LET k == LowestFreeOrder(ret'.order) IN
          /\ ret'.page = Head(free_area[k].free_list)
          /\ free_area'[k].free_list = Tail(free_area[k].free_list)
          /\ \A j \in Orders : (j < ret'.order \/ j > k) =>
                /\ free_area'[j].free_list = free_area[j].free_list
                /\ free_area'[j].nr_free = free_area[j].nr_free]_vars

\* An order-1 request was served by the free order-1 block left by an
\* earlier split, while blocks are free one order down and one order up.
C35_Witness ==
    /\ ret.op = "alloc" /\ ret.order = 1 /\ ret.page = Pow2(1)
    /\ free_area[0].free_list = <<Pow2(0)>>
    /\ free_area[1].free_list = <<>>
    /\ free_area[2].free_list # <<>>

-----------------------------------------------------------------------------
(* Maximal coalescing                                                      *)

\* C36: in every state reached by bb_alloc_pages and bb_free_pages calls,
\* no free list below the highest order holds a block together with its
\* buddy (the block at the index with bit 2^k toggled).
C36_NoFreeBuddyPair ==
    \A k \in 0 .. (MAX_BUDDYSYSTEM_GFP_ORDER - 2) :
       \A a, b \in 1 .. Len(free_area[k].free_list) :
          free_area[k].free_list[b] #
             __get_buddy_at_index(free_area[k].free_list[a], k)

\* A block was freed and merged with its buddy while another block is held:
\* the merged block stays on a list below the highest order because its
\* own buddy is not free.
C36_Witness ==
    /\ ret.op = "free" /\ ret.valid
    /\ \E h \in held : \E k \in 1 .. (MAX_BUDDYSYSTEM_GFP_ORDER - 2) :
          \E a \in 1 .. Len(free_area[k].free_list) :
             LET i == free_area[k].free_list[a] IN
             /\ ~pages[i + Pow2(k - 1)].root
             /\ h.idx \in __get_buddy_at_index(i, k) ..
                           (__get_buddy_at_index(i, k) + Pow2(k) - 1)

-----------------------------------------------------------------------------
(* Counters of the free lists                                              *)

\* C37: in every state reached by valid bb_alloc_pages and bb_free_pages
\* calls, nr_free of every order is the number of descriptors linked on
\* the free list of that order, each of them linked once.
C37_CountersMatchLists ==
    \A k \in Orders :
       /\ free_area[k].nr_free = Len(free_area[k].free_list)
       /\ free_area[k].nr_free =
             Cardinality({free_area[k].free_list[i] :
                            i \in 1 .. Len(free_area[k].free_list)})

\* After a free that could not merge up to the highest order, with a block
\* still held: lists of a lower and of the highest order both hold blocks.
C37_Witness ==
    /\ ret.op = "free" /\ ret.valid
    /\ held # {}
    /\ free_area[MAX_BUDDYSYSTEM_GFP_ORDER - 1].nr_free >= 1
    /\ \E k \in 0 .. (MAX_BUDDYSYSTEM_GFP_ORDER - 2) : free_area[k].nr_free >= 1

-----------------------------------------------------------------------------
(* Hysteresis band of the page cache                                       *)

\* C38: a bb_alloc_page_cached call made with cache_size at or above the
\* low watermark, and a bb_free_page_cached call whose push leaves
\* cache_size at or below the high watermark, change no free list, no
\* nr_free counter and no flag or order of any descriptor.
C38_BandKeepsBuddy ==
    [][(\/ ret'.op = "cached_alloc" /\ free_pages_cache_size >= LOW_WATERMARK_LEVEL
        \/ ret'.op = "cached_free" /\ free_pages_cache_size' <= HIGH_WATERMARK_LEVEL) =>
          /\ free_area' = free_area
          /\ pages' = pages]_vars

\* A page was pushed on the cache inside the band, after an allocation
\* inside the band had popped it.
C38_Witness ==
    /\ ret.op = "cached_free"
    /\ free_pages_cache_size >= LOW_WATERMARK_LEVEL
    /\ free_pages_cache_size <= HIGH_WATERMARK_LEVEL
    /\ free_pages_cache_list # <<>>
    /\ Head(free_pages_cache_list) = ret.page
    /\ Len(free_pages_cache_list) >= LOW_WATERMARK_LEVEL

-----------------------------------------------------------------------------
(* Refill on an exhausted zone                                             *)

\* C39: a bb_alloc_page_cached call whose refill the buddy cannot supply in
\* full does not stop the kernel and links no NULL descriptor into the
\* cache, and leaves every nr_free counter equal to the length of its
\* list.
C39_RefillExhaustion ==
    ret.op = "cached_alloc" =>
        /\ ~crashed
        /\ \A i \in 1 .. Len(free_pages_cache_list) : free_pages_cache_list[i] # NONE
        /\ NrFreeMatchesLists

-----------------------------------------------------------------------------
(* The cache after initialisation                                          *)

\* C40: after a successful buddy_system_init the cache list is empty and
\* free_pages_cache_size is 0, whatever the instance held before.
C40_CacheEmptyAfterInit ==
    (ret.op = "init" /\ "count" \in DOMAIN ret /\ ret.valid) =>
        /\ free_pages_cache_size = 0
        /\ free_pages_cache_list = <<>>

====
